---------------------------- MODULE Spec2Model ----------------------------
(***************************************************************************)
(* Store discovery and ranking pipeline of PartFinder Pro.                 *)
(*                                                                         *)
(*   StoreFinderService.findNearbyStores      src/src/services/storeFinder.js *)
(*   AIStoreLocatorService (FIXED VERSION)    src/src/services/aiStoreLocator.js *)
(*   GeolocationService.calculateDistance     src/unnamed/part_005          *)
(*                                                                         *)
(* Units.  JavaScript numbers are modelled as integers in fixed point:     *)
(*   - latitudes and longitudes in 1e-5 degree (34.0522 is 3405220);       *)
(*   - distances and the distance budget in tenths of a mile, the grain    *)
(*     calculateDistance rounds to (4.0 mi is 40); a distance that is NaN  *)
(*     is the string "NaN";                                                *)
(*   - likelihoods in points, as the code has them;                        *)
(*   - relevance scores in tenths of a point (likelihood*10 - ...), so     *)
(*     that likelihood - distance*5 stays an integer.                      *)
(* A JavaScript object is a record; a property the object does not have    *)
(* is a field the record does not have.                                    *)
(***************************************************************************)
EXTENDS Integers, Sequences, FiniteSets, TLC

VARIABLES
    pc,             \* position of the request inside findNearbyStores
    openaiApiKey,   \* TRUE when the classification oracle is configured
    googlePlacesApiKey, \* TRUE when the places provider is configured
    part,           \* the request's part
    userLocation,   \* the request's origin
    maxDistance,    \* the request's distance budget, tenths of a mile
    storeTypes,     \* result of determineStoreTypes
    stores,         \* result of searchRealNearbyStores
    verifiedStores, \* result of verifyPartAvailability
    locatorCaught,  \* TRUE when the locator's catch block (lines 582-586) ran
    locatorResult,  \* what AIStoreLocatorService.findNearbyStores returned
    finalStores,    \* what StoreFinderService.findNearbyStores returned
    outcome,        \* "pending", "returned" or "threw"
    upstream,       \* the answers the upstream services are set to give, or <<>>
    earlier,        \* what an earlier, identical request returned, or <<>>
    zipCode,        \* the ZIP code given to findStoresByZipCode, or ""
    cache,          \* VendorAPIsService.cache: cache key -> [data, timestamp]
    clock,          \* Date.now(), in units of 5 minutes
    pricingCalls    \* the getVendorPricing calls made so far, in order of call

vars == <<pc, openaiApiKey, googlePlacesApiKey, part, userLocation, maxDistance,
          storeTypes, stores, verifiedStores, locatorCaught, locatorResult,
          finalStores, outcome, upstream, earlier, zipCode, cache, clock, pricingCalls>>

---------------------------------------------------------------------------
(* Generic helpers. *)

Abs(n) == IF n < 0 THEN 0 - n ELSE n

Min(a, b) == IF a <= b THEN a ELSE b

Max(a, b) == IF a >= b THEN a ELSE b

\* JavaScript's own-property test and object spread {...o, f: v}.
Has(o, f) == f \in DOMAIN o

With(o, f, v) == [k \in DOMAIN o \cup {f} |-> IF k = f THEN v ELSE o[k]]

\* Array.prototype.map on sequences (filter is SelectSeq).
MapSeq(s, f(_)) == [i \in 1..Len(s) |-> f(s[i])]

\* A cut that keeps one element too many.
SliceOneMore(s, n) == SubSeq(s, 1, Min(n + 1, Len(s)))

\* Array.prototype.slice(0, n).
Slice(s, n) == SubSeq(s, 1, Min(n, Len(s)))

\* Floor of the square root, by bisection on [lo, hi].
RECURSIVE IsqrtIn(_, _, _)
IsqrtIn(n, lo, hi) ==
    IF lo >= hi THEN lo
    ELSE LET mid == (lo + hi + 1) \div 2
         IN  IF mid * mid <= n THEN IsqrtIn(n, mid, hi) ELSE IsqrtIn(n, lo, mid - 1)

Isqrt(n) == IsqrtIn(n, 0, 46340)

---------------------------------------------------------------------------
(* Numbers of calculateDistance.  Math.sqrt, Math.atan2 and Math.round are *)
(* computed on fixed-point numbers with 24 decimals: a number is a tuple   *)
(* <<i, f1, ..., f6>> of base 10000 standing for                           *)
(* i + f1/1e4 + f2/1e8 + ... + f6/1e24, with f1..f6 in 0..9999 (i carries  *)
(* the sign).  A result is cut after the 24th decimal.                     *)

Base == 10000

QZero == <<0, 0, 0, 0, 0, 0, 0>>

QOne == <<1, 0, 0, 0, 0, 0, 0>>

QHalf == <<0, 5000, 0, 0, 0, 0, 0>>

\* The integer n.
QInt(n) == <<n, 0, 0, 0, 0, 0, 0>>

\* The value NaN of a Number, and whether v is it.
NaN == "NaN"

IsNaN(v) == ToString(v) = ToString(NaN)

\* Carries, from digit k up: what digit k holds beyond 0..9999 goes to
\* digit k - 1.
RECURSIVE Carry(_, _)
Carry(cols, k) ==
    IF k = 1 THEN cols
    ELSE IF cols[k] \in 0..(Base - 1) THEN Carry(cols, k - 1)
    ELSE Carry([cols EXCEPT ![k] = @ % Base, ![k - 1] = @ + cols[k] \div Base], k - 1)

\* x + y
QAdd(x, y) ==
    Carry(<<x[1] + y[1], x[2] + y[2], x[3] + y[3], x[4] + y[4],
            x[5] + y[5], x[6] + y[6], x[7] + y[7]>>,
          Len(x))

\* x - y
QSub(x, y) ==
    Carry(<<x[1] - y[1], x[2] - y[2], x[3] - y[3], x[4] - y[4],
            x[5] - y[5], x[6] - y[6], x[7] - y[7]>>,
          Len(x))

\* -x
QNeg(x) == QSub(QZero, x)

\* |x|
QAbs(x) == IF x[1] < 0 THEN QNeg(x) ELSE x

\* x < y
QLess(x, y) == QSub(x, y)[1] < 0

\* The larger of x and y.
QMax(x, y) == IF QLess(x, y) THEN y ELSE x

\* x * y: the columns of the long multiplication, with the carry of the
\* first column that is cut.
QMul(x, y) ==
    Carry(<<x[1] * y[1],
            x[1] * y[2] + x[2] * y[1],
            x[1] * y[3] + x[2] * y[2] + x[3] * y[1],
            x[1] * y[4] + x[2] * y[3] + x[3] * y[2] + x[4] * y[1],
            x[1] * y[5] + x[2] * y[4] + x[3] * y[3] + x[4] * y[2] + x[5] * y[1],
            x[1] * y[6] + x[2] * y[5] + x[3] * y[4] + x[4] * y[3] + x[5] * y[2] + x[6] * y[1],
            x[1] * y[7] + x[2] * y[6] + x[3] * y[5] + x[4] * y[4] + x[5] * y[3] + x[6] * y[2] + x[7] * y[1]
              + (x[2] * y[7] + x[3] * y[6] + x[4] * y[5] + x[5] * y[4] + x[6] * y[3] + x[7] * y[2]) \div Base>>,
          Len(x))

\* x * n for an integer n.
QTimes(x, n) ==
    Carry(<<x[1] * n, x[2] * n, x[3] * n, x[4] * n, x[5] * n, x[6] * n, x[7] * n>>,
          Len(x))

\* The digits k.. of x / n, given the remainder r of the digits before.
RECURSIVE LongDivision(_, _, _, _)
LongDivision(x, n, k, r) ==
    IF k > Len(x) THEN <<>>
    ELSE <<(r * Base + x[k]) \div n>> \o LongDivision(x, n, k + 1, (r * Base + x[k]) % n)

\* x / n for an integer n in 1..200000.
QDiv(x, n) == <<x[1] \div n>> \o LongDivision(x, n, 2, x[1] % n)

\* x * 10000^s, for x whose first s digits are 0.
QShift(x, s) == SubSeq(x, s + 1, Len(x)) \o SubSeq(QZero, 1, s)

\* The number of digits 0 that x # 0 begins with, from digit k.
RECURSIVE LeadingZeros(_, _)
LeadingZeros(x, k) == IF x[k] # 0 THEN 0 ELSE 1 + LeadingZeros(x, k + 1)

\* The sum 1 - t(1) + t(2) - ..., t(k) = t(k - 1) x2 / ((2k - 1 + odd)(2k + odd)),
\* until a term no longer changes it: the series of cos x (odd = 0) and of
\* sin x / x (odd = 1) in x2 = x^2.  `term` is t(k), `sum` the sum before it.
RECURSIVE AlternatingSeries(_, _, _, _, _)
AlternatingSeries(x2, term, k, odd, sum) ==
    IF QAdd(sum, term) = sum THEN sum
    ELSE AlternatingSeries(x2,
                           QDiv(QMul(term, x2), (2 * k + 1 + odd) * (2 * k + 2 + odd)),
                           k + 1, odd,
                           IF k % 2 = 1 THEN QSub(sum, term) ELSE QAdd(sum, term))

\* cos x and sin x for x >= 0.
CosineOf(x) == AlternatingSeries(QMul(x, x), QDiv(QMul(x, x), 2), 1, 0, QOne)

SineOf(x) == QMul(x, AlternatingSeries(QMul(x, x), QDiv(QMul(x, x), 6), 1, 1, QOne))

\* asin(z) / z = 1 + z^2/6 + 3 z^4/40 + ... in z2 = z^2 <= 1/2: the sum of
\* t(k) = t(k - 1) z2 (2k - 1)^2 / (2k (2k + 1)), until a term no longer
\* changes it.  `term` is t(k), `sum` the sum before it.
RECURSIVE ArcsineSeries(_, _, _, _)
ArcsineSeries(z2, term, k, sum) ==
    IF QAdd(sum, term) = sum THEN sum
    ELSE ArcsineSeries(z2,
                       QDiv(QTimes(QMul(term, z2), (2 * k + 1) * (2 * k + 1)),
                            (2 * k + 2) * (2 * k + 3)),
                       k + 1, QAdd(sum, term))

ArcsineOf(z) == QMul(z, ArcsineSeries(QMul(z, z), QDiv(QMul(z, z), 6), 1, QOne))

\* Math.asin(z), z^2 <= 1/2.
asin(z) == IF z[1] < 0 THEN QNeg(ArcsineOf(QNeg(z))) ELSE ArcsineOf(z)

\* Newton's iteration r + r (1 - x r^2) / 2 for 1 / sqrt(x), as long as the
\* residual 1 - x r^2 is not 0 and for `steps` steps at most.
RECURSIVE NewtonInverseRoot(_, _, _, _)
NewtonFrom(x, r, steps) ==
    NewtonInverseRoot(x, r, QSub(QOne, QMul(x, QMul(r, r))), steps)

NewtonInverseRoot(x, r, residual, steps) ==
    IF residual = QZero \/ steps = 0 THEN r
    ELSE NewtonFrom(x, QAdd(r, QDiv(QMul(r, residual), 2)), steps - 1)

\* 100000000 / s as the number q / 10000 (x < 1) or q / 1000000 (x >= 1).
FirstInverseRoot(x, q) ==
    IF x[1] = 0 THEN <<q \div Base, q % Base, 0, 0, 0, 0, 0>>
    ELSE <<0, q \div 100, (q % 100) * 100, 0, 0, 0, 0>>

\* 1 / sqrt(x) for 0.0001 <= x < 10000: four steps of Newton's iteration
\* from the root of the first eight digits of x.
InverseRoot(x) ==
    NewtonFrom(
        x,
        FirstInverseRoot(x, 100000000 \div Isqrt(IF x[1] = 0 THEN x[2] * Base + x[3]
                                                  ELSE x[1] * Base + x[2])),
        4)

\* y / 100^s
RECURSIVE Hundredths(_, _)
Hundredths(y, s) == IF s = 0 THEN y ELSE Hundredths(QDiv(y, 100), s - 1)

\* y + r (x - y^2) / 2, the root of x from y close to it and r close to 1 / y.
CorrectedRoot(x, r, y) == QAdd(y, QDiv(QMul(r, QSub(x, QMul(y, y))), 2))

RootOfScaled(x, r) == CorrectedRoot(x, r, QMul(x, r))

\* sqrt(x) = sqrt(x 10000^s) / 100^s
RootByShift(x, s) == Hundredths(RootOfScaled(QShift(x, s), InverseRoot(QShift(x, s))), s)

\* Math.sqrt(x) for x < 10000: NaN for x NaN and for x < 0.
sqrt(x) ==
    IF IsNaN(x) THEN NaN
    ELSE IF x[1] < 0 THEN NaN
    ELSE IF x = QZero THEN QZero
    ELSE RootByShift(x, Max(LeadingZeros(x, 1) - 1, 0))

\* Math.PI / 2
HalfPi == <<1, 5707, 9632, 6794, 8966, 1923, 1321>>

\* The angle t <= pi/4 of sine z and cosine w, from t0 close to it:
\* t = t0 + asin(sin(t - t0)).
AngleFrom(z, w, t0) ==
    QAdd(t0, asin(QSub(QMul(z, CosineOf(t0)), QMul(w, SineOf(t0)))))

\* asin z is z (1 + z^2/5) within 0.01 for 0 <= z^2 <= 1/2.
AngleOfUnit(z, w) ==
    IF z = QZero THEN QZero
    ELSE AngleFrom(z, w, QMul(z, QAdd(QOne, QDiv(QMul(z, z), 5))))

\* The angle of (x, y), r = 1 / sqrt(x^2 + y^2): that of the smaller
\* coordinate over the length, or its complement.
AngleByLength(y, x, r) ==
    IF QLess(x, y) THEN QSub(HalfPi, AngleOfUnit(QMul(x, r), QMul(y, r)))
    ELSE AngleOfUnit(QMul(y, r), QMul(x, r))

\* The angle of (x, y) with 0.0001 <= x^2 + y^2 < 10000.
AngleOfScaled(y, x) == AngleByLength(y, x, InverseRoot(QAdd(QMul(x, x), QMul(y, y))))

\* (x, y) times 100 when x^2 + y^2 < 0.0001.
AngleOfShifted(y, x) ==
    IF QLess(QAdd(QMul(x, x), QMul(y, y)), <<0, 1, 0, 0, 0, 0, 0>>)
    THEN AngleOfScaled(QTimes(y, 100), QTimes(x, 100))
    ELSE AngleOfScaled(y, x)

\* The angle of (x, y) is that of (x, y) 10000^s.
AngleByShift(y, x, s) == AngleOfShifted(QShift(y, s), QShift(x, s))

\* Math.atan2(y, x) for 0 <= y < 50 and 0 <= x < 50: NaN for y or x NaN.
atan2(y, x) ==
    IF IsNaN(y) \/ IsNaN(x) THEN NaN
    ELSE IF y = QZero THEN QZero
    ELSE IF x = QZero THEN HalfPi
    ELSE AngleByShift(y, x, Max(LeadingZeros(QMax(x, y), 1) - 1, 0))

\* x * n for a Number x and an integer n: NaN for x NaN.
Times(x, n) == IF IsNaN(x) THEN NaN ELSE QTimes(x, n)

\* Math.round(x): NaN for x NaN.
round(x) ==
    IF IsNaN(x) THEN NaN
    ELSE IF x[2] >= 5000 THEN x[1] + 1 ELSE x[1]

---------------------------------------------------------------------------
(* IEEE doubles.  The haversine of calculateDistance is a sum of products  *)
(* that the code rounds to a double at each operation, and these roundings *)
(* decide whether it exceeds 1, 1 - a is negative and its root NaN.  A     *)
(* double is [sign, digits, exponent], standing for sign * d * 2^exponent  *)
(* with d the number of the four `digits` in base 2^14,                    *)
(* 2^52 <= d < 2^53 (the first digit has 11 bits), or d = 0.  Math.sin and *)
(* Math.cos are computed as V8 computes them (base::ieee754, its port of   *)
(* fdlibm): the argument less a multiple of pi/2, then a polynomial, every *)
(* operation rounded.                                                      *)

\* The base of the digits of a double: 2^14.
Radix == 16384

DoubleZero == [sign |-> 1, digits |-> <<0, 0, 0, 0>>, exponent |-> 0]

DoubleOne == [sign |-> 1, digits |-> <<1024, 0, 0, 0>>, exponent |-> -52]

IsZero(x) == x.digits = DoubleZero.digits

\* 2^t for t in 0..13.
Power2(t) == <<1, 2, 4, 8, 16, 32, 64, 128, 256, 512, 1024, 2048, 4096, 8192>>[t + 1]

\* The number of bits of n >= 0.
RECURSIVE BitLength(_)
BitLength(n) == IF n = 0 THEN 0 ELSE 1 + BitLength(n \div 2)

\* n digits 0.
Zeros(n) == [k \in 1..n |-> 0]

\* The digits d without the digits 0 they begin with.
RECURSIVE StripZeros(_)
StripZeros(d) ==
    IF d = <<>> THEN d
    ELSE IF d[1] # 0 THEN d
    ELSE StripZeros(Tail(d))

\* Carries in base 2^14, from digit k up.
RECURSIVE BinaryCarry(_, _)
BinaryCarry(cols, k) ==
    IF k = 1 THEN cols
    ELSE IF cols[k] \in 0..(Radix - 1) THEN BinaryCarry(cols, k - 1)
    ELSE BinaryCarry([cols EXCEPT ![k] = @ % Radix, ![k - 1] = @ + cols[k] \div Radix],
                     k - 1)

\* The digits of d * n for n in 1..8192, one digit more than d has.
ScaleDigits(d, n) ==
    BinaryCarry(<<0>> \o [k \in 1..Len(d) |-> d[k] * n], Len(d) + 1)

\* Whether digits d that begin with a digit of 11 bits round up to their
\* first four: the rest is more than half a unit of the fourth digit, or
\* half a unit with the fourth digit odd.
RoundsUp(d) ==
    \/ d[5] > Radix \div 2
    \/ /\ d[5] = Radix \div 2
       /\ (d[4] % 2 = 1 \/ \E k \in 6..Len(d) : d[k] # 0)

\* The double of four digits m, the first of which a carry may have brought
\* to 2^11.
Renormalised(sign, m, e) ==
    IF m[1] = 2048 THEN [sign |-> sign, digits |-> <<1024, 0, 0, 0>>, exponent |-> e + 1]
    ELSE [sign |-> sign, digits |-> m, exponent |-> e]

\* The double nearest to sign * d * 2^e, ties to even, for digits d that
\* begin with a digit of 11 bits.
RoundDigits(sign, d, e) ==
    IF Len(d) <= 4
    THEN [sign |-> sign, digits |-> d \o Zeros(4 - Len(d)),
          exponent |-> e - 14 * (4 - Len(d))]
    ELSE IF RoundsUp(d)
    THEN Renormalised(sign, BinaryCarry(<<d[1], d[2], d[3], d[4] + 1>>, 4),
                      e + 14 * (Len(d) - 4))
    ELSE [sign |-> sign, digits |-> SubSeq(d, 1, 4), exponent |-> e + 14 * (Len(d) - 4)]

\* The same for digits d that begin with a digit other than 0: d * 2^t
\* begins with a digit of 11 bits.
NormalisedBy(sign, d, e, t) ==
    RoundDigits(sign, StripZeros(ScaleDigits(d, Power2(t))), e - t)

Normalised(sign, d, e) == NormalisedBy(sign, d, e, (11 - BitLength(d[1])) % 14)

\* The double nearest to sign * d * 2^e, for any digits d.
RoundToDouble(sign, d, e) ==
    IF StripZeros(d) = <<>> THEN DoubleZero ELSE Normalised(sign, StripZeros(d), e)

\* x * y: the columns of the long multiplication, rounded.
DoubleMul(x, y) ==
    IF IsZero(x) \/ IsZero(y) THEN DoubleZero
    ELSE RoundToDouble(
             x.sign * y.sign,
             BinaryCarry(
                 <<0,
                   x.digits[1] * y.digits[1],
                   x.digits[1] * y.digits[2] + x.digits[2] * y.digits[1],
                   x.digits[1] * y.digits[3] + x.digits[2] * y.digits[2] + x.digits[3] * y.digits[1],
                   x.digits[1] * y.digits[4] + x.digits[2] * y.digits[3] + x.digits[3] * y.digits[2]
                     + x.digits[4] * y.digits[1],
                   x.digits[2] * y.digits[4] + x.digits[3] * y.digits[3] + x.digits[4] * y.digits[2],
                   x.digits[3] * y.digits[4] + x.digits[4] * y.digits[3],
                   x.digits[4] * y.digits[4]>>,
                 8),
             x.exponent + y.exponent)

\* Whether |x| < |y|, for doubles other than 0.
Smaller(x, y) ==
    \/ x.exponent < y.exponent
    \/ /\ x.exponent = y.exponent
       /\ \E k \in 1..4 : /\ x.digits[k] < y.digits[k]
                          /\ \A j \in 1..(k - 1) : x.digits[j] = y.digits[j]

\* The digits of d * 2^s.
ShiftLeft(d, s) == ScaleDigits(d, Power2(s % 14)) \o Zeros(s \div 14)

\* sign * (high + low) or sign * (high - low) in units of 2^e, high >= low
\* digits of one length, rounded.
SumOfDigits(sign, high, low, same, e) ==
    RoundToDouble(sign,
                  BinaryCarry(<<0>> \o [k \in 1..Len(high) |->
                                           IF same THEN high[k] + low[k]
                                           ELSE high[k] - low[k]],
                              Len(high) + 1),
                  e)

\* x + y with the digits `high` of x in units of y's.
AddShifted(x, y, high) ==
    SumOfDigits(x.sign, high, Zeros(Len(high) - 4) \o y.digits, x.sign = y.sign, y.exponent)

\* x + y for the pair <<x, y>>, |x| >= |y| > 0: x, where y is less than a
\* quarter of a unit of x's last bit.
AddOrdered(pair) ==
    IF pair[1].exponent - pair[2].exponent > 56 THEN pair[1]
    ELSE AddShifted(pair[1], pair[2],
                    ShiftLeft(pair[1].digits, pair[1].exponent - pair[2].exponent))

\* x + y
DoubleAdd(x, y) ==
    IF IsZero(x) THEN y
    ELSE IF IsZero(y) THEN x
    ELSE AddOrdered(IF Smaller(x, y) THEN <<y, x>> ELSE <<x, y>>)

\* x - y
DoubleSub(x, y) == DoubleAdd(x, [y EXCEPT !.sign = 0 - @])

\* x / 2
Halved(x) == IF IsZero(x) THEN x ELSE [x EXCEPT !.exponent = @ - 1]

\* The first `count` digits in base 2^14 of the fraction r / n, and a last
\* digit that is 0 only if no more follow.
RECURSIVE RatioDigits(_, _, _)
RatioDigits(r, n, count) ==
    IF count = 0 THEN <<IF r = 0 THEN 0 ELSE 1>>
    ELSE <<(r * Radix) \div n>> \o RatioDigits((r * Radix) % n, n, count - 1)

\* v * 2^t for t <= 0.
RECURSIVE QScale(_, _)
QScale(v, t) ==
    IF t = 0 THEN v
    ELSE IF t <= -14 THEN QScale(QDiv(v, Radix), t + 14)
    ELSE QDiv(v, Power2(0 - t))

\* The number of the digits m, over 2^42.
QDigits(m) ==
    QAdd(QDiv(QAdd(QDiv(QAdd(QDiv(QInt(m[4]), Radix), QInt(m[3])), Radix), QInt(m[2])),
              Radix),
         QInt(m[1]))

\* |x| for a double |x| < 1024, to 24 decimals.
Magnitude(x) ==
    IF IsZero(x) THEN QZero ELSE QScale(QDigits(x.digits), x.exponent + 42)

\* The double x to 24 decimals.
Decimal(x) == IF x.sign < 0 THEN QNeg(Magnitude(x)) ELSE Magnitude(x)

\* -x
DoubleNeg(x) == [x EXCEPT !.sign = 0 - @]

\* |x|
DoubleAbs(x) == [x EXCEPT !.sign = 1]

\* The double of the integer n, 0 <= n < 2^28.
IntDouble(n) == RoundToDouble(1, <<n \div Radix, n % Radix>>, 0)

\* (int) x for a double 1/2 <= x < 2^24.
Truncated(x) ==
    (x.digits[1] * Radix + x.digits[2])
        \div (Power2((0 - x.exponent - 28) % 14)
                * (IF 0 - x.exponent - 28 >= 14 THEN Radix ELSE 1))

\* The exponent field of x: 0 for 0.
BiasedExponent(x) == IF IsZero(x) THEN 0 ELSE x.exponent + 1075

\* The high word of |x|: the exponent field and the first 20 bits of the
\* fraction.
HighWord(x) ==
    IF IsZero(x) THEN 0
    ELSE BiasedExponent(x) * 1048576 + (x.digits[1] - 1024) * 1024 + x.digits[2] \div 16

\* 1/2 and 0.28125
DoubleHalf == [sign |-> 1, digits |-> <<1024, 0, 0, 0>>, exponent |-> -53]

Double9Over32 == [sign |-> 1, digits |-> <<1152, 0, 0, 0>>, exponent |-> -54]

\* S1 .. S6 of __kernel_sin: -1.66666666666666324348e-01, ...,
\* 1.58969099521155010221e-10.
SineCoefficients ==
    << [sign |-> -1, digits |-> <<1365, 5461, 5461, 5449>>, exponent |-> -55],
       [sign |-> 1, digits |-> <<1092, 4369, 1091, 14502>>, exponent |-> -59],
       [sign |-> -1, digits |-> <<1664, 6657, 9989, 8661>>, exponent |-> -65],
       [sign |-> 1, digits |-> <<1479, 7733, 7879, 15997>>, exponent |-> -71],
       [sign |-> -1, digits |-> <<1721, 7784, 10414, 7403>>, exponent |-> -78],
       [sign |-> 1, digits |-> <<1398, 5029, 11071, 5500>>, exponent |-> -85] >>

\* C1 .. C6 of __kernel_cos: 4.16666666666666019037e-02, ...,
\* -1.13596475577881948265e-11.
CosineCoefficients ==
    << [sign |-> 1, digits |-> <<1365, 5461, 5461, 5452>>, exponent |-> -57],
       [sign |-> -1, digits |-> <<1456, 5825, 6917, 4471>>, exponent |-> -62],
       [sign |-> 1, digits |-> <<1664, 6657, 10028, 5520>>, exponent |-> -68],
       [sign |-> -1, digits |-> <<1183, 9464, 625, 4781>>, exponent |-> -74],
       [sign |-> 1, digits |-> <<1147, 10731, 14034, 12740>>, exponent |-> -81],
       [sign |-> -1, digits |-> <<1598, 11931, 14880, 14548>>, exponent |-> -89] >>

\* invpio2: 53 bits of 2/pi.
invpio2 == [sign |-> 1, digits |-> <<1303, 13062, 14119, 2179>>, exponent |-> -53]

\* pio2_1, pio2_2, pio2_3: the first, second and third 33 bits of pi/2.
pio2 ==
    << [sign |-> 1, digits |-> <<1608, 8117, 4352, 0>>, exponent |-> -52],
       [sign |-> 1, digits |-> <<1069, 1553, 10624, 0>>, exponent |-> -86],
       [sign |-> 1, digits |-> <<1222, 6306, 14336, 0>>, exponent |-> -121] >>

\* pio2_1t, pio2_2t, pio2_3t: pi/2 less pio2_1, less pio2_1 + pio2_2, and
\* less pio2_1 + pio2_2 + pio2_3.
pio2t ==
    << [sign |-> 1, digits |-> <<1069, 1553, 10633, 9009>>, exponent |-> -86],
       [sign |-> 1, digits |-> <<1222, 6306, 14349, 12403>>, exponent |-> -121],
       [sign |-> 1, digits |-> <<1760, 14754, 5249, 2497>>, exponent |-> -156] >>

\* npio2_hw: the high words of n pi/2 for n in 1..32 (0x3FF921FB, ...).
npio2_hw ==
    <<1073291771, 1074340347, 1074977148, 1075388923, 1075800698, 1076025724,
      1076231611, 1076437499, 1076643386, 1076849274, 1076971356, 1077074300,
      1077177244, 1077280187, 1077383131, 1077486075, 1077589019, 1077691962,
      1077794906, 1077897850, 1077968460, 1078019932, 1078071404, 1078122876,
      1078174348, 1078225820, 1078277292, 1078328763, 1078380235, 1078431707,
      1078483179, 1078534651>>

\* c[first] + z (c[first + 1] + z (... + z c[Len(c)])), every operation
\* rounded, from the innermost sum: `sum` is c[k + 1] + z (...).
RECURSIVE HornerFrom(_, _, _, _, _)
HornerFrom(c, z, first, k, sum) ==
    IF k < first THEN sum
    ELSE IF IsZero(sum) THEN HornerFrom(c, z, first, k - 1, c[k])
    ELSE HornerFrom(c, z, first, k - 1, DoubleAdd(c[k], DoubleMul(z, sum)))

Horner(c, z, first) == HornerFrom(c, z, first, Len(c) - 1, c[Len(c)])

\* __kernel_sin with z = x * x, v = z * x and r = S2 + z (S3 + ... + z S6).
KernelSinOf(x, y, iy, z, v, r) ==
    IF iy = 0
    THEN DoubleAdd(x, DoubleMul(v, DoubleAdd(SineCoefficients[1], DoubleMul(z, r))))
    ELSE DoubleSub(x,
                   DoubleSub(DoubleSub(DoubleMul(z, DoubleSub(DoubleMul(DoubleHalf, y),
                                                               DoubleMul(v, r))),
                                       y),
                             DoubleMul(v, SineCoefficients[1])))

KernelSinIn(x, y, iy, z) ==
    KernelSinOf(x, y, iy, z, DoubleMul(z, x), Horner(SineCoefficients, z, 2))

\* __kernel_sin(x, y, iy): the sine of x + y for |x| <= pi/4 and y the tail
\* of x (iy = 0 says that y is 0); x itself for |x| < 2^-27 (0x3e400000).
KernelSin(x, y, iy) ==
    IF HighWord(x) < 1044381696 THEN x ELSE KernelSinIn(x, y, iy, DoubleMul(x, x))

\* The double of the high word of |x| less 0x00200000 and of low word 0:
\* |x| / 4 cut to its first 21 bits.
QuarterHead(x) ==
    [sign |-> 1,
     digits |-> <<x.digits[1], (x.digits[2] \div 16) * 16, 0, 0>>,
     exponent |-> x.exponent - 2]

\* a - (iz - tail) for iz = z / 2 - qx and a = 1 - qx.
KernelCosBy(z, tail, qx) ==
    DoubleSub(DoubleSub(DoubleOne, qx),
              DoubleSub(DoubleSub(DoubleMul(DoubleHalf, z), qx), tail))

\* __kernel_cos with z = x * x and tail = z * r - x * y,
\* r = z (C1 + z (C2 + ... + z C6)); the thresholds are 0x3FD33333 (0.3) and
\* 0x3fe90000 (0.78125).
KernelCosOf(x, z, tail) ==
    IF HighWord(x) < 1070805811
    THEN DoubleSub(DoubleOne, DoubleSub(DoubleMul(DoubleHalf, z), tail))
    ELSE KernelCosBy(z, tail,
                     IF HighWord(x) > 1072234496 THEN Double9Over32 ELSE QuarterHead(x))

KernelCosIn(x, y, z) ==
    KernelCosOf(x, z,
                DoubleSub(DoubleMul(z, DoubleMul(z, Horner(CosineCoefficients, z, 1))),
                          DoubleMul(x, y)))

\* __kernel_cos(x, y): the cosine of x + y for |x| <= pi/4 and y the tail of
\* x; 1 for |x| < 2^-27.
KernelCos(x, y) ==
    IF HighWord(x) < 1044381696 THEN DoubleOne ELSE KernelCosIn(x, y, DoubleMul(x, x))

\* The result of __ieee754_rem_pio2: n and y[0] + y[1], y[1] = (r - y[0]) - w.
Reduced(n, r, w, y0) ==
    [n |-> n, y0 |-> y0, y1 |-> DoubleSub(DoubleSub(r, y0), w), iy |-> 1]

\* Whether y[0] is good enough after iteration k (good to 85, 118 and 151
\* bits): it is the last one, or the high word ix of x is not that of
\* n pi/2 (k = 1, n < 32), or y[0] has lost no more than 16 (k = 1) or 49
\* (k = 2) bits against x.
GoodEnough(k, n, ix, y0) ==
    \/ k = 3
    \/ k = 1 /\ n < 32 /\ ix # npio2_hw[n]
    \/ ix \div 1048576 - BiasedExponent(y0) <= (IF k = 1 THEN 16 ELSE 49)

\* Iteration k of the reduction of t by n pi/2, fn the double of n:
\* r = t - fn * pio2[k]; w = fn * pio2t[k], less (t - r) - fn * pio2[k] in
\* the second and the third iteration; y[0] = r - w; and the next iteration
\* on r where y[0] will not do.
RECURSIVE Iteration(_, _, _, _, _)
IterationFrom(k, n, fn, ix, r, w, y0) ==
    IF GoodEnough(k, n, ix, y0) THEN Reduced(n, r, w, y0)
    ELSE Iteration(k + 1, n, fn, ix, r)

IterationWith(k, n, fn, ix, r, w) == IterationFrom(k, n, fn, ix, r, w, DoubleSub(r, w))

IterationTail(k, tail, lost) == IF k = 1 THEN tail ELSE DoubleSub(tail, lost)

IterationOn(k, n, fn, ix, t, head, r) ==
    IterationWith(k, n, fn, ix, r,
                  IterationTail(k, DoubleMul(fn, pio2t[k]),
                                DoubleSub(DoubleSub(t, r), head)))

IterationBy(k, n, fn, ix, t, head) == IterationOn(k, n, fn, ix, t, head, DoubleSub(t, head))

Iteration(k, n, fn, ix, t) == IterationBy(k, n, fn, ix, t, DoubleMul(fn, pio2[k]))

\* t - n pi/2 for 3 pi/4 <= t <= 2^19 pi/2, n = (int) (t * invpio2 + half).
Medium(t, ix, n) == Iteration(1, n, IntDouble(n), ix, t)

\* z - tail in two parts: y[0] = z - tail, y[1] = (z - y[0]) - tail.
TwoParts(z, tail, y0) ==
    [n |-> 1, y0 |-> y0, y1 |-> DoubleSub(DoubleSub(z, y0), tail), iy |-> 1]

TwoPartsOf(z, tail) == TwoParts(z, tail, DoubleSub(z, tail))

\* t - pi/2 for pi/4 < t < 3 pi/4: with pio2_1 and pio2_1t, or, where the
\* high word of t is that of pi/2 (0x3ff921fb), with pio2_2 and pio2_2t too.
NearHalfPi(ix, z) ==
    TwoPartsOf(IF ix # 1073291771 THEN z ELSE DoubleSub(z, pio2[2]),
               IF ix # 1073291771 THEN pio2t[1] ELSE pio2t[2])

\* __ieee754_rem_pio2 for t = |x| > pi/4; 0x4002d97c is the high word of
\* 3 pi/4.
RemPio2Of(t, ix) ==
    IF ix < 1073928572 THEN NearHalfPi(ix, DoubleSub(t, pio2[1]))
    ELSE Medium(t, ix, Truncated(DoubleAdd(DoubleMul(t, invpio2), DoubleHalf)))

\* The reduction of -t from that of t.
Mirrored(sign, y) ==
    IF sign < 0
    THEN [n |-> 0 - y.n, y0 |-> DoubleNeg(y.y0), y1 |-> DoubleNeg(y.y1), iy |-> 1]
    ELSE y

\* __ieee754_rem_pio2(x, y) for pi/4 < |x| <= 2^19 pi/2: n and y[0] + y[1]
\* with x = n pi/2 + y[0] + y[1], |y[0] + y[1]| <= pi/4.
RemPio2(x) == Mirrored(x.sign, RemPio2Of(DoubleAbs(x), HighWord(x)))

\* The argument of Math.sin and Math.cos as n pi/2 + y[0] + y[1]: x itself
\* for |x| <= pi/4 (0x3fe921fb is the high word of pi/4), with no tail
\* (iy = 0), and else what __ieee754_rem_pio2 makes of it.
Argument(x) ==
    IF HighWord(x) <= 1072243195
    THEN [n |-> 0, y0 |-> x, y1 |-> DoubleZero, iy |-> 0]
    ELSE RemPio2(x)

\* The kernel for quarter turn k: __kernel_sin for an even k, __kernel_cos
\* for an odd one.
KernelOf(k, y) ==
    IF k % 2 = 0 THEN KernelSin(y.y0, y.y1, y.iy) ELSE KernelCos(y.y0, y.y1)

\* The sign for quarter turn k: -1 for k & 3 in {2, 3}.
Signed(k, value) == IF k % 4 >= 2 THEN DoubleNeg(value) ELSE value

\* switch (n & 3) of sin() for turn = 0: sin, cos, -sin, -cos of y; that of
\* cos() for turn = 1: cos, -sin, -cos, sin.
Turned(turn, y) == Signed(y.n + turn, KernelOf(y.n + turn, y))

\* Math.sin (turn 0) or Math.cos (turn 1) of each of the arguments xs, in
\* their order.
RECURSIVE Circular(_, _)
Circular(turns, xs) ==
    IF xs = <<>> THEN <<>>
    ELSE <<Turned(Head(turns), Argument(Head(xs)))>> \o Circular(Tail(turns), Tail(xs))

\* Math.cos(x), |x| <= 2^19 pi/2.
cos(x) == Circular(<<1>>, <<x>>)[1]

\* Math.sin(x), |x| <= 2^19 pi/2.
sin(x) == Circular(<<0>>, <<x>>)[1]

---------------------------------------------------------------------------
(* GeolocationService.calculateDistance: haversine, Earth radius 3959 mi,  *)
(* rounded to one decimal.  Coordinates are integers, 1e-5 degree; the     *)
(* result is in tenths of a mile.                                          *)

\* Earth's radius in miles.
R == 3959

\* The double of a coordinate of n 1e-5 degrees: the one nearest to
\* n / 100000 degrees.
Degrees(n) ==
    RoundToDouble(IF n < 0 THEN -1 ELSE 1,
                  <<Abs(n) \div 100000>> \o RatioDigits(Abs(n) % 100000, 100000, 6),
                  -98)

\* Math.PI / 180, the double 0x1.1df46a2529d39p-6.
PiOver180 == [sign |-> 1, digits |-> <<1143, 13418, 2378, 7481>>, exponent |-> -58]

\* degrees * (Math.PI / 180)
toRadians(degrees) == DoubleMul(degrees, PiOver180)

\* sinLat * sinLat + cosLat1 * cosLat2 * sinLon * sinLon, each operation
\* rounded, from left to right.
SumOfProducts(sinLat, cosLat1, cosLat2, sinLon) ==
    DoubleAdd(DoubleMul(sinLat, sinLat),
              DoubleMul(DoubleMul(DoubleMul(cosLat1, cosLat2), sinLon), sinLon))

\* The same for values = <<sinLat, cosLat1, cosLat2, sinLon>>.
SumOfProductsOf(values) == SumOfProducts(values[1], values[2], values[3], values[4])

\* a = sin(dLat / 2)^2 + cos(lat1) cos(lat2) sin(dLon / 2)^2, lines 97-99:
\* Math.sin(dLat / 2), Math.cos(toRadians(lat1)), Math.cos(toRadians(lat2))
\* and Math.sin(dLon / 2), then the sum of their products.
Haversine(dLat, dLon, lat1, lat2) ==
    SumOfProductsOf(Circular(<<0, 1, 1, 0>>,
                             <<Halved(dLat), toRadians(lat1), toRadians(lat2),
                               Halved(dLon)>>))

\* 1 - a: negative where the roundings have put a above 1.
Complement(a) == DoubleSub(DoubleOne, a)

\* c = 2 * Math.atan2(Math.sqrt(a), Math.sqrt(1 - a)), line 101: NaN where
\* 1 - a is negative.
CentralAngle(a) == Times(atan2(sqrt(Decimal(a)), sqrt(Decimal(Complement(a)))), 2)

\* Math.round(distance * 10), distance = R * c for the haversine a: lines
\* 101-104, in tenths of a mile, or NaN.
DistanceOf(a) ==
    IF IsZero(a) THEN 0 ELSE round(Times(Times(CentralAngle(a), R), 10))

\* calculateDistance for coordinates in 1e-5 degree.
HaversineDistance(lat1, lon1, lat2, lon2) ==
    DistanceOf(Haversine(toRadians(DoubleSub(Degrees(lat2), Degrees(lat1))),
                         toRadians(DoubleSub(Degrees(lon2), Degrees(lon1))),
                         Degrees(lat1), Degrees(lat2)))

\* The origin of the spec's scenario: Los Angeles, (34.0522, -118.2437).
LosAngeles == [latitude |-> 3405220, longitude |-> -11824370]

\* The places that the scenarios below measure over and over, as offsets
\* <<dLat, dLng>> from Los Angeles in 1e-5 degree: the provider's places and
\* the candidates north of the origin, the provider's other places, and the
\* fallback profiles for budgets of 5 and of 2 miles.
MeasuredOffsets ==
    {<<dLat, 0>> : dLat \in {0, 724, 1447, 2605, 2894, 3618, 4342, 5789, 7236, 7381, 10130}}
        \cup {<<2000, -2000>>, <<-2500, 3000>>}
        \cup {<<1000, 1000>>, <<-800, 1200>>, <<500, -800>>}
        \cup {<<400, 400>>, <<-320, 480>>, <<200, -320>>}

\* HaversineDistance from Los Angeles to each of these places, computed once.
MeasuredDistance ==
    [offset \in MeasuredOffsets |->
        HaversineDistance(LosAngeles.latitude, LosAngeles.longitude,
                          LosAngeles.latitude + offset[1],
                          LosAngeles.longitude + offset[2])]

\* calculateDistance(lat1, lon1, lat2, lon2), lines 92-105: HaversineDistance,
\* read from MeasuredDistance where that holds it.
calculateDistance(lat1, lon1, lat2, lon2) ==
    IF /\ lat1 = LosAngeles.latitude
       /\ lon1 = LosAngeles.longitude
       /\ <<lat2 - lat1, lon2 - lon1>> \in MeasuredOffsets
    THEN MeasuredDistance[<<lat2 - lat1, lon2 - lon1>>]
    ELSE HaversineDistance(lat1, lon1, lat2, lon2)

---------------------------------------------------------------------------
(* JavaScript strings.  A string value of the model is a TLA+ string; its  *)
(* characters are given by Chars, so that String.prototype.includes and    *)
(* toLowerCase work on the characters, as in the code.                     *)

\* A displayName.text that is a JSON number: `||` lets it through as the name.
NumberName == "<number>"

IsString(v) == v # NumberName

Chars(s) ==
    CASE s = "The Home Depot" -> <<"T","h","e"," ","H","o","m","e"," ","D","e","p","o","t">>
      [] s = "Lowe's Home Improvement" -> <<"L","o","w","e","'","s"," ","H","o","m","e"," ","I","m","p","r","o","v","e","m","e","n","t">>
      [] s = "Local Appliance Parts Center" -> <<"L","o","c","a","l"," ","A","p","p","l","i","a","n","c","e"," ","P","a","r","t","s"," ","C","e","n","t","e","r">>
      [] s = "Home Depot Cafe" -> <<"H","o","m","e"," ","D","e","p","o","t"," ","C","a","f","e">>
      [] s = "Ace Hardware" -> <<"A","c","e"," ","H","a","r","d","w","a","r","e">>
      [] s = "Joe's Pizza" -> <<"J","o","e","'","s"," ","P","i","z","z","a">>
      [] s = "Unknown Store" -> <<"U","n","k","n","o","w","n"," ","S","t","o","r","e">>
      [] s = "Vegas Appliance Repair" -> <<"V","e","g","a","s"," ","A","p","p","l","i","a","n","c","e"," ","R","e","p","a","i","r">>
      [] s = "hardware_store" -> <<"h","a","r","d","w","a","r","e","_","s","t","o","r","e">>
      [] s = "home_goods_store" -> <<"h","o","m","e","_","g","o","o","d","s","_","s","t","o","r","e">>
      [] s = "electronics_store" -> <<"e","l","e","c","t","r","o","n","i","c","s","_","s","t","o","r","e">>
      [] s = "store" -> <<"s","t","o","r","e">>
      [] s = "establishment" -> <<"e","s","t","a","b","l","i","s","h","m","e","n","t">>
      [] s = "restaurant" -> <<"r","e","s","t","a","u","r","a","n","t">>
      [] s = "food" -> <<"f","o","o","d">>
      [] s = "car_repair" -> <<"c","a","r","_","r","e","p","a","i","r">>
      [] s = "Seals & Gaskets" -> <<"S","e","a","l","s"," ","&"," ","G","a","s","k","e","t","s">>
      [] s = "Control Board" -> <<"C","o","n","t","r","o","l"," ","B","o","a","r","d">>
      [] s = "Water Filter" -> <<"W","a","t","e","r"," ","F","i","l","t","e","r">>
      [] s = "Drain Pump" -> <<"D","r","a","i","n"," ","P","u","m","p">>
      [] s = "home depot" -> <<"h","o","m","e"," ","d","e","p","o","t">>
      [] s = "depot" -> <<"d","e","p","o","t">>
      [] s = "lowe" -> <<"l","o","w","e">>
      [] s = "lowe's" -> <<"l","o","w","e","'","s">>
      [] s = "sears" -> <<"s","e","a","r","s">>
      [] s = "parts" -> <<"p","a","r","t","s">>
      [] s = "appliance" -> <<"a","p","p","l","i","a","n","c","e">>
      [] s = "repair" -> <<"r","e","p","a","i","r">>
      [] s = "hardware" -> <<"h","a","r","d","w","a","r","e">>
      [] s = "ace hardware" -> <<"a","c","e"," ","h","a","r","d","w","a","r","e">>
      [] s = "clothing_store" -> <<"c","l","o","t","h","i","n","g","_","s","t","o","r","e">>
      [] s = "beauty_salon" -> <<"b","e","a","u","t","y","_","s","a","l","o","n">>
      [] s = "gas_station" -> <<"g","a","s","_","s","t","a","t","i","o","n">>
      [] s = "bank" -> <<"b","a","n","k">>
      [] s = "pharmacy" -> <<"p","h","a","r","m","a","c","y">>
      [] s = "car_" -> <<"c","a","r","_">>
      [] s = "clothing" -> <<"c","l","o","t","h","i","n","g">>
      [] s = "beauty" -> <<"b","e","a","u","t","y">>
      [] s = "gas" -> <<"g","a","s">>
      [] s = "auto" -> <<"a","u","t","o">>
      [] s = "coffee" -> <<"c","o","f","f","e","e">>
      [] s = "cafe" -> <<"c","a","f","e">>
      [] s = "hotel" -> <<"h","o","t","e","l">>
      [] s = "motel" -> <<"m","o","t","e","l">>
      [] s = "school" -> <<"s","c","h","o","o","l">>
      [] s = "hospital" -> <<"h","o","s","p","i","t","a","l">>
      [] s = "pizza" -> <<"p","i","z","z","a">>
      [] s = "burger" -> <<"b","u","r","g","e","r">>
      [] s = "salon" -> <<"s","a","l","o","n">>
      [] s = "spa" -> <<"s","p","a">>
      [] s = "gym" -> <<"g","y","m">>
      [] s = "fitness" -> <<"f","i","t","n","e","s","s">>
      [] s = "church" -> <<"c","h","u","r","c","h">>
      [] s = "temple" -> <<"t","e","m","p","l","e">>
      [] s = "filter" -> <<"f","i","l","t","e","r">>
      [] s = "seal" -> <<"s","e","a","l">>
      [] s = "gasket" -> <<"g","a","s","k","e","t">>
      [] s = "motor" -> <<"m","o","t","o","r">>
      [] s = "pump" -> <<"p","u","m","p">>
      [] s = "control" -> <<"c","o","n","t","r","o","l">>
      [] s = "board" -> <<"b","o","a","r","d">>

UpperCase == <<"A","B","C","D","E","F","G","H","I","J","K","L","M",
               "N","O","P","Q","R","S","T","U","V","W","X","Y","Z">>

LowerCase == <<"a","b","c","d","e","f","g","h","i","j","k","l","m",
               "n","o","p","q","r","s","t","u","v","w","x","y","z">>

\* String.prototype.toLowerCase, on characters.
toLowerCase(cs) ==
    [i \in 1..Len(cs) |->
        IF \E k \in 1..26 : UpperCase[k] = cs[i]
        THEN LowerCase[CHOOSE k \in 1..26 : UpperCase[k] = cs[i]]
        ELSE cs[i]]

\* String.prototype.includes, on characters.
includes(cs, needle) ==
    \E i \in 1..(Len(cs) - Len(needle) + 1) :
        SubSeq(cs, i, i + Len(needle) - 1) = needle

\* Array.prototype.join(' '), on the characters of the elements.
RECURSIVE join(_)
join(ss) ==
    IF ss = <<>> THEN <<>>
    ELSE IF Len(ss) = 1 THEN Chars(ss[1])
    ELSE Chars(ss[1]) \o <<" ">> \o join(Tail(ss))

---------------------------------------------------------------------------
(* Array.prototype.sort as V8 runs it on an array shorter than 64: one     *)
(* TimSort run.  The leading run is counted (and reversed when strictly    *)
(* descending), then every further element is placed by binary insertion.  *)
(* A comparator is a record naming the comparison function of the source.  *)

\* Whether the store has a distance that is a number.
HasNumber(store) == Has(store, "distance") /\ ~IsNaN(store.distance)

\* a.distance - b.distance as the sort takes it: with a distance undefined
\* or NaN the difference is NaN, and the sort takes NaN for 0.
DistanceDifference(a, b) ==
    IF HasNumber(a) /\ HasNumber(b) THEN a.distance - b.distance ELSE 0

\* The two-level comparator with its tie broken by descending distance.
CompareFartherFirst(cmp, a, b) ==
    IF cmp.kind = "distance" THEN DistanceDifference(a, b)
    ELSE IF Abs(a.relevanceScore - b.relevanceScore) > cmp.threshold
         THEN b.relevanceScore - a.relevanceScore
         ELSE DistanceDifference(b, a)

\* (a, b) => a.distance - b.distance, or the two-level comparator with a
\* tie-break threshold (in tenths of a point).
Compare(cmp, a, b) ==
    IF cmp.kind = "distance" THEN DistanceDifference(a, b)
    ELSE IF Abs(a.relevanceScore - b.relevanceScore) > cmp.threshold
         THEN b.relevanceScore - a.relevanceScore
         ELSE DistanceDifference(a, b)

RECURSIVE RunLength(_, _, _, _)
RunLength(arr, cmp, isDescending, idx) ==
    IF idx > Len(arr) THEN idx - 1
    ELSE LET order == Compare(cmp, arr[idx], arr[idx - 1])
         IN  IF (isDescending /\ order >= 0) \/ (~isDescending /\ order < 0)
             THEN idx - 1
             ELSE RunLength(arr, cmp, isDescending, idx + 1)

Reverse(s) == [i \in 1..Len(s) |-> s[Len(s) + 1 - i]]

\* The array with its leading run, of length n, made ascending.
MakeRun(arr, isDescending, n) ==
    IF isDescending
    THEN Reverse(SubSeq(arr, 1, n)) \o SubSeq(arr, n + 1, Len(arr))
    ELSE arr

IsDescending(arr, cmp) == Compare(cmp, arr[2], arr[1]) < 0

\* Length of the leading run.
CountRun(arr, cmp) == RunLength(arr, cmp, IsDescending(arr, cmp), 3)

RECURSIVE InsertionPoint(_, _, _, _, _)
InsertionPoint(arr, cmp, pivot, left, right) ==
    IF left >= right THEN left
    ELSE LET mid == left + ((right - left) \div 2)
         IN  IF Compare(cmp, pivot, arr[mid]) < 0
             THEN InsertionPoint(arr, cmp, pivot, left, mid)
             ELSE InsertionPoint(arr, cmp, pivot, mid + 1, right)

\* arr with arr[start] moved down to position left.
MoveTo(arr, start, left) ==
    SubSeq(arr, 1, left - 1) \o <<arr[start]>>
    \o SubSeq(arr, left, start - 1) \o SubSeq(arr, start + 1, Len(arr))

RECURSIVE BinaryInsertionSort(_, _, _)
BinaryInsertionSort(arr, cmp, start) ==
    IF start > Len(arr) THEN arr
    ELSE BinaryInsertionSort(
             MoveTo(arr, start, InsertionPoint(arr, cmp, arr[start], 1, start)),
             cmp, start + 1)

SortFromRun(arr, cmp, n) ==
    BinaryInsertionSort(MakeRun(arr, IsDescending(arr, cmp), n), cmp, n + 1)

ArraySort(arr, cmp) ==
    IF Len(arr) < 2 THEN arr ELSE SortFromRun(arr, cmp, CountRun(arr, cmp))

---------------------------------------------------------------------------
(* Results of a call: a value, or an exception.                            *)

Ok(v) == [threw |-> FALSE, value |-> v]

Throw == [threw |-> TRUE, value |-> <<>>]

\* `x || dflt` on a number property that may be absent: 0 and NaN are falsy.
NumberOr(o, f, dflt) ==
    IF Has(o, f) /\ ~IsNaN(o[f]) /\ o[f] # 0 THEN o[f] ELSE dflt

\* d <= maxDist for a Number d: false for NaN.
AtMost(d, maxDist) == ~IsNaN(d) /\ d <= maxDist

---------------------------------------------------------------------------
(* AIStoreLocatorService, src/src/services/aiStoreLocator.js lines 535-1106 *)

\* The closed set of store-type tags determineStoreTypes accepts.
ValidStoreTypes == {"hardware_store", "home_goods_store", "electronics_store", "store"}

getFallbackStoreTypes ==
    <<"hardware_store", "home_goods_store", "electronics_store", "store">>

\* The answer to a fetch: kind is "network_error" (fetch rejects),
\* "http_error" (response.ok is false), "bad_body" (response.json() rejects
\* or the body has no choices[0].message.content), "no_array" (the content
\* has no [...]), "unparseable" (JSON.parse throws) or "array" (items is the
\* parsed array).
IsArrayReply(reply) == reply.kind = "array"

\* A classification that hands on the filtered list even when it is empty.
determineStoreTypesUnguarded(apiKey, reply) ==
    IF ~apiKey THEN getFallbackStoreTypes
    ELSE IF ~IsArrayReply(reply) THEN getFallbackStoreTypes
    ELSE SelectSeq(reply.items, LAMBDA type : type \in ValidStoreTypes)

determineStoreTypes(apiKey, reply) ==
    IF ~apiKey THEN getFallbackStoreTypes
    ELSE IF ~IsArrayReply(reply) THEN getFallbackStoreTypes
    ELSE LET validTypes == SelectSeq(reply.items, LAMBDA type : type \in ValidStoreTypes)
         IN  IF Len(validTypes) > 0 THEN validTypes ELSE getFallbackStoreTypes

\* AIStoreLocatorService.getAvailabilityStatus
locatorAvailabilityStatus(likelihood) ==
    IF likelihood >= 85 THEN [status |-> "likely", label |-> "Likely In Stock"]
    ELSE IF likelihood >= 70 THEN [status |-> "possible", label |-> "May Have In Stock"]
    ELSE [status |-> "call", label |-> "Call to Confirm"]

\* AIStoreLocatorService.getEstimatedPrice: the string `$${price-10}-$${price+15}`,
\* price = Math.round(35 * 0.9) = 32 or Math.round(35 * 1.1) = 39.
locatorEstimatedPrice(likelihood) ==
    LET price == IF likelihood >= 70 THEN (35 * 9 + 5) \div 10 ELSE (35 * 11 + 5) \div 10
    IN  [string |-> <<price - 10, price + 15>>]

\* Math.min(maxDistance / 5, 1) times an offset given in 1e-5 degree.
Scaled(offsetE5, maxDist) == (offsetE5 * Min(maxDist, 50)) \div 50

FallbackProfiles(userLoc, maxDist) ==
    << [id |-> "fallback_hd", name |-> "The Home Depot",
        coordinates |-> [lat |-> userLoc.latitude + Scaled(1000, maxDist),
                         lng |-> userLoc.longitude + Scaled(1000, maxDist)],
        types |-> <<"home_goods_store", "hardware_store">>,
        likelihood |-> 85,
        aiReason |-> "Major home improvement retailer with appliance parts section",
        source |-> "fallback"],
       [id |-> "fallback_lowes", name |-> "Lowe's Home Improvement",
        coordinates |-> [lat |-> userLoc.latitude - Scaled(800, maxDist),
                         lng |-> userLoc.longitude + Scaled(1200, maxDist)],
        types |-> <<"home_goods_store", "hardware_store">>,
        likelihood |-> 80,
        aiReason |-> "Home improvement store with appliance section",
        source |-> "fallback"],
       [id |-> "fallback_local", name |-> "Local Appliance Parts Center",
        coordinates |-> [lat |-> userLoc.latitude + Scaled(500, maxDist),
                         lng |-> userLoc.longitude - Scaled(800, maxDist)],
        types |-> <<"store", "establishment">>,
        likelihood |-> 92,
        aiReason |-> "Specialized appliance parts retailer",
        source |-> "fallback"] >>

\* A distance recorded at half its value.
SetDistanceHalved(store, d) ==
    With(With(store, "distance", d \div 2), "distanceFormatted", d \div 2)

\* store.distance = d; store.distanceFormatted = `${Math.round(d * 10) / 10} mi`
SetDistance(store, d) == With(With(store, "distance", d), "distanceFormatted", d)

\* A store with its distance from userLoc computed and stored.
WithDistance(store, userLoc) ==
    SetDistance(store, calculateDistance(userLoc.latitude, userLoc.longitude,
                                         store.coordinates.lat, store.coordinates.lng))

\* Lines 1097-1098: availability and pricing from the profile's likelihood.
WithAvailabilityAndPrice(store) ==
    With(With(store, "availability", locatorAvailabilityStatus(store.likelihood)),
         "estimatedPrice", locatorEstimatedPrice(store.likelihood))

\* A fallback list that is not filtered by the budget and whose profiles
\* are not scaled to it.
generateFallbackStoresUnscaled(userLoc, maxDist) ==
    ArraySort(
        MapSeq(FallbackProfiles(userLoc, 50),
               LAMBDA store : WithAvailabilityAndPrice(WithDistance(store, userLoc))),
        [kind |-> "distance"])

generateFallbackStores(userLoc, maxDist) ==
    ArraySort(
        SelectSeq(MapSeq(FallbackProfiles(userLoc, maxDist),
                         LAMBDA store : WithAvailabilityAndPrice(WithDistance(store, userLoc))),
                  LAMBDA store : AtMost(store.distance, maxDist)),
        [kind |-> "distance"])

\* The store searchRealNearbyStores builds from one place of the provider.
PlaceToStore(place, userLoc) ==
    LET hasLat == Has(place, "location") /\ place.location.latitude # 0
        hasLng == Has(place, "location") /\ place.location.longitude # 0
        store ==
            [id |-> "unknown",
             name |-> IF Has(place, "displayName") THEN place.displayName ELSE "Unknown Store",
             coordinates |->
                 [lat |-> IF hasLat THEN place.location.latitude ELSE userLoc.latitude,
                  lng |-> IF hasLng THEN place.location.longitude ELSE userLoc.longitude],
             types |-> IF Has(place, "types") THEN place.types ELSE <<>>,
             source |-> "google_places"]
    IN  WithDistance(store, userLoc)

\* A search that falls back only when it has no list to work on.
searchRealNearbyStoresOfAnyList(apiKey, userLoc, maxDist, reply) ==
    IF ~apiKey \/ reply.kind # "places" \/ ~Has(reply, "places")
    THEN generateFallbackStores(userLoc, maxDist)
    ELSE SelectSeq(
             MapSeq(SelectSeq(reply.places,
                              LAMBDA place : place.businessStatus = "OPERATIONAL"),
                    LAMBDA place : PlaceToStore(place, userLoc)),
             LAMBDA store : AtMost(store.distance, maxDist))

\* reply.kind is "network_error", "http_error", "bad_body", or "places" with
\* reply.places the provider's list (absent when data.places is missing).
searchRealNearbyStores(apiKey, userLoc, maxDist, reply) ==
    IF \/ ~apiKey                                           \* line 738
       \/ reply.kind # "places"                             \* lines 771, 825
       \/ ~Has(reply, "places") \/ Len(reply.places) = 0    \* line 777
    THEN generateFallbackStores(userLoc, maxDist)
    ELSE SelectSeq(
             MapSeq(SelectSeq(reply.places,
                              LAMBDA place : place.businessStatus = "OPERATIONAL"),
                    LAMBDA place : PlaceToStore(place, userLoc)),
             LAMBDA store : AtMost(store.distance, maxDist))

---------------------------------------------------------------------------
(* The heuristic verifier.  The names, type lists and keywords the model   *)
(* draws from are fixed sets, so what `includes` answers for them is       *)
(* tabulated once (NameIncludes, TypesInclude) from the characters.        *)

StoreNames ==
    {"The Home Depot", "Lowe's Home Improvement", "Local Appliance Parts Center",
     "Home Depot Cafe", "Ace Hardware", "Joe's Pizza", "Unknown Store",
     "Vegas Appliance Repair"}

TypeLists ==
    {<<"home_goods_store", "hardware_store">>, <<"store", "establishment">>,
     <<"hardware_store", "store">>, <<"electronics_store">>,
     <<"restaurant", "food">>, <<"car_repair">>, <<>>}

NameKeywords ==
    {"home depot", "depot", "lowe", "lowe's", "sears", "parts", "appliance", "repair",
     "hardware", "ace hardware", "restaurant", "food", "clothing", "beauty", "gas",
     "bank", "pharmacy", "auto", "coffee", "cafe", "hotel", "motel", "school",
     "hospital", "pizza", "burger", "salon", "spa", "gym", "fitness", "church", "temple"}

TypeKeywords ==
    {"home_goods_store", "hardware_store", "electronics_store", "restaurant", "food",
     "clothing_store", "beauty_salon", "gas_station", "bank", "pharmacy", "car_"}

\* store.name.toLowerCase().includes(k), for every name and keyword.
NameIncludes ==
    [n \in StoreNames |->
        {k \in NameKeywords : includes(toLowerCase(Chars(n)), Chars(k))}]

\* (store.types || []).join(' ').toLowerCase().includes(k)
TypesInclude ==
    [ts \in TypeLists |->
        {k \in TypeKeywords : includes(toLowerCase(join(ts)), Chars(k))}]

\* The positive indicators of lines 934-950: base 20, name keywords, type tags.
PositiveScore(store) ==
    LET n(k) == k \in NameIncludes[store.name]
        t(k) == k \in TypesInclude[store.types]
        add(c, pts) == IF c THEN pts ELSE 0
    IN  20
        + add(n("home depot") \/ n("depot"), 50)
        + add(n("lowe") \/ n("lowe's"), 50)
        + add(n("sears") \/ n("parts"), 55)
        + add(n("appliance"), 45)
        + add(n("repair"), 40)
        + add(n("hardware"), 35)
        + add(n("ace hardware"), 40)
        + add(t("home_goods_store"), 25)
        + add(t("hardware_store"), 30)
        + add(t("electronics_store"), 20)

\* The distance bonus of lines 953-956; `store.distance || 999`.
DistanceBonus(store) ==
    LET distance == NumberOr(store, "distance", 9990)
    IN  IF distance <= 10 THEN 15
        ELSE IF distance <= 20 THEN 10
        ELSE IF distance <= 30 THEN 5
        ELSE 0

\* The negative indicators of lines 959-975.
Excluded(store) ==
    LET n(k) == k \in NameIncludes[store.name]
        t(k) == k \in TypesInclude[store.types]
    IN  \/ t("restaurant") \/ n("restaurant")
        \/ t("food") \/ n("food")
        \/ t("clothing_store") \/ n("clothing")
        \/ t("beauty_salon") \/ n("beauty")
        \/ t("gas_station") \/ n("gas")
        \/ t("bank") \/ n("bank")
        \/ t("pharmacy") \/ n("pharmacy")
        \/ t("car_") \/ n("auto")
        \/ n("coffee") \/ n("cafe")
        \/ n("hotel") \/ n("motel")
        \/ n("school") \/ n("hospital")
        \/ n("pizza") \/ n("burger")
        \/ n("salon") \/ n("spa")
        \/ n("gym") \/ n("fitness")
        \/ n("church") \/ n("temple")

\* A scorer that applies the exclusions to the base score, before the
\* additions instead of after them.
heuristicLikelihoodExclusionsFirst(store) ==
    Max(0, Min(100, (IF Excluded(store) THEN 0 ELSE 20)
                    + (PositiveScore(store) - 20) + DistanceBonus(store)))

\* The likelihood one store gets, lines 934-979: the additions, then the
\* exclusions overwrite the sum with 0, then the clamp to [0, 100].
heuristicLikelihood(store) ==
    LET likelihood == IF Excluded(store) THEN 0
                      ELSE PositiveScore(store) + DistanceBonus(store)
    IN  Max(0, Min(100, likelihood))

heuristicReason(likelihood) ==
    IF likelihood > 0 THEN "Heuristic evaluation - likely carries appliance parts"
    ELSE "Heuristic evaluation - does not carry appliance parts"

\* A scored copy that is marked as a store of the places provider.
ScoredAsReal(store, likelihood) ==
    With(With(With(store, "likelihood", likelihood), "aiReason", heuristicReason(likelihood)),
         "source", "google_places")

\* { ...store, likelihood, aiReason }
Scored(store, likelihood) ==
    With(With(store, "likelihood", likelihood), "aiReason", heuristicReason(likelihood))

\* store.name.toLowerCase() (line 935) throws a TypeError when a name is not
\* a string; otherwise every store is scored and those under 60 are dropped.
heuristicStoreFiltering(candidates) ==
    IF \E i \in 1..Len(candidates) : ~IsString(candidates[i].name) THEN Throw
    ELSE Ok(SelectSeq(MapSeq(candidates,
                             LAMBDA store : Scored(store, heuristicLikelihood(store))),
                      LAMBDA store : store.likelihood >= 60))

\* Lines 898-905: what one evaluation pushes on verifiedStores.
Accepted(candidates, evaluation) ==
    IF /\ evaluation.index - 1 >= 0
       /\ evaluation.index - 1 < Len(candidates)
       /\ evaluation.likelihood >= 60
    THEN <<With(With(candidates[evaluation.index], "likelihood", evaluation.likelihood),
                "aiReason", "oracle")>>
    ELSE <<>>

\* The evaluations loop of lines 895-906: one copy of stores[index - 1] per
\* evaluation that names a store of the list with likelihood >= 60.
RECURSIVE AcceptEvaluations(_, _)
AcceptEvaluations(candidates, evaluations) ==
    IF evaluations = <<>> THEN <<>>
    ELSE Accepted(candidates, Head(evaluations))
         \o AcceptEvaluations(candidates, Tail(evaluations))

\* The stores the oracle accepted, be they none.
VerifiedOnly(verified, candidates) == Ok(verified)

\* Lines 909-914: the stores the oracle accepted, or the heuristic backup.
VerifiedOrHeuristic(verified, candidates) ==
    IF Len(verified) = 0 THEN heuristicStoreFiltering(candidates) ELSE Ok(verified)

\* reply is the oracle's answer (see IsArrayReply); its items are
\* evaluations [index, likelihood].  Without a key or without candidates
\* (line 839), and when the call or the parsing fails (lines 917, 921), the
\* heuristic runs on all candidates, as it does when no evaluation is accepted.
verifyPartAvailability(apiKey, candidates, reply) ==
    VerifiedOrHeuristic(
        IF apiKey /\ Len(candidates) # 0 /\ IsArrayReply(reply)
        THEN AcceptEvaluations(candidates, reply.items)
        ELSE <<>>,
        candidates)

\* `store.distance || calculateDistance(...)`, stored back, then the bound.
applyStrictDistanceFilter(candidates, userLoc, maxDist) ==
    SelectSeq(
        MapSeq(candidates,
               LAMBDA store :
                   IF HasNumber(store) /\ store.distance # 0
                   THEN SetDistance(store, store.distance)
                   ELSE WithDistance(store, userLoc)),
        LAMBDA store : AtMost(store.distance, maxDist))

\* relevanceScore = (likelihood || 50) - (distance || 999) * 10, then the sort
\* with tie-break threshold 15.
locatorSortByDistanceAndRelevance(candidates) ==
    ArraySort(
        MapSeq(candidates,
               LAMBDA store :
                   With(store, "relevanceScore",
                        NumberOr(store, "likelihood", 50) * 10
                        - NumberOr(store, "distance", 9990) * 10)),
        [kind |-> "relevance", threshold |-> 150])

\* Lines 566-586 of AIStoreLocatorService.findNearbyStores: what the function
\* returns once verifyPartAvailability has settled with `verified`.
locatorFinish(verified, userLoc, maxDist) ==
    IF verified.threw THEN generateFallbackStores(userLoc, maxDist)
    ELSE Slice(locatorSortByDistanceAndRelevance(
                   applyStrictDistanceFilter(verified.value, userLoc, maxDist)), 5)

---------------------------------------------------------------------------
(* StoreFinderService (FIXED VERSION), src/src/services/storeFinder.js 7-331 *)

\* `store.coordinates?.lat || store.latitude` (lines 66 and 104); 0 when
\* both operands are falsy.
storeLat(store) ==
    IF Has(store, "coordinates") /\ store.coordinates.lat # 0 THEN store.coordinates.lat
    ELSE IF Has(store, "latitude") THEN store.latitude
    ELSE 0

\* `store.coordinates?.lng || store.longitude` (lines 67 and 105).
storeLng(store) ==
    IF Has(store, "coordinates") /\ store.coordinates.lng # 0 THEN store.coordinates.lng
    ELSE IF Has(store, "longitude") THEN store.longitude
    ELSE 0

\* `if (storeLat && storeLng)`, lines 69 and 107.
HasCoordinates(store) == storeLat(store) # 0 /\ storeLng(store) # 0

\* Lines 65-82 and 103-116: a store without distance and with coordinates
\* gets its distance from userLoc and distanceFormatted.
EnsureDistance(store, userLoc) ==
    IF ~Has(store, "distance") /\ HasCoordinates(store)
    THEN SetDistance(store, calculateDistance(userLoc.latitude, userLoc.longitude,
                                              storeLat(store), storeLng(store)))
    ELSE store

\* A store without distance and without coordinates is excluded (line 84).
filterStoresByDistance(candidates, userLoc, maxDist) ==
    SelectSeq(
        MapSeq(candidates, LAMBDA store : EnsureDistance(store, userLoc)),
        LAMBDA store : Has(store, "distance") /\ AtMost(store.distance, maxDist))

\* StoreFinderService.getAvailabilityStatus
getAvailabilityStatus(likelihood) ==
    IF likelihood >= 85 THEN [status |-> "in-stock", label |-> "Likely In Stock"]
    ELSE IF likelihood >= 70 THEN [status |-> "possible", label |-> "May Have In Stock"]
    ELSE IF likelihood >= 50 THEN [status |-> "call", label |-> "Call to Confirm"]
    ELSE [status |-> "unlikely", label |-> "Unlikely to Have"]

PartCategories == {"Seals & Gaskets", "Control Board", "Water Filter", "Drain Pump"}

CategoryKeywords == {"filter", "seal", "gasket", "motor", "pump", "control", "board"}

\* part.category.toLowerCase().includes(k)
CategoryIncludes ==
    [c \in PartCategories |->
        {k \in CategoryKeywords : includes(toLowerCase(Chars(c)), Chars(k))}]

\* Lines 172-181: the later `if` wins.
BasePrice(p) ==
    IF ~Has(p, "category") THEN 35
    ELSE LET c(k) == k \in CategoryIncludes[p.category]
         IN  IF c("control") \/ c("board") THEN 120
             ELSE IF c("motor") \/ c("pump") THEN 85
             ELSE IF c("seal") \/ c("gasket") THEN 30
             ELSE IF c("filter") THEN 25
             ELSE 35

\* A multiplier that makes the chains dearer and the specialty stores cheaper.
PriceMultiplierDearerChains(store) ==
    LET likelihood == NumberOr(store, "likelihood", 50)
        n(k) == k \in NameIncludes[store.name]
        tier == IF likelihood >= 85 THEN 90 ELSE IF likelihood >= 70 THEN 100 ELSE 110
        kind == IF n("home depot") \/ n("lowe") THEN 105
                ELSE IF n("parts") \/ n("appliance") THEN 95
                ELSE 100
    IN  tier * kind

\* Lines 184-198: the multiplier, in 1e-4 (0.9 * 0.95 is 8550).
PriceMultiplier(store) ==
    LET likelihood == NumberOr(store, "likelihood", 50)
        n(k) == k \in NameIncludes[store.name]
        tier == IF likelihood >= 85 THEN 90 ELSE IF likelihood >= 70 THEN 100 ELSE 110
        kind == IF n("home depot") \/ n("lowe") THEN 95
                ELSE IF n("parts") \/ n("appliance") THEN 105
                ELSE 100
    IN  tier * kind

\* Math.round of a quotient n / d of naturals.
RoundDiv(n, d) == (2 * n + d) \div (2 * d)

\* Lines 200-211: the rounded price, its range and its formatted text.
PriceEstimate(estimatedPrice) ==
    [price |-> estimatedPrice, currency |-> "USD",
     range |-> <<RoundDiv(estimatedPrice * 85, 100), RoundDiv(estimatedPrice * 115, 100)>>,
     formatted |-> estimatedPrice]

\* StoreFinderService.getEstimatedPrice, for a store whose name is a string
\* (see PriceThrows).
getEstimatedPrice(p, store) ==
    PriceEstimate(RoundDiv(BasePrice(p) * PriceMultiplier(store), 10000))

\* Lines 119-125: relevanceScore = (likelihood || 50) - (distance || 999) * 5.
WithRelevance(store) ==
    With(store, "relevanceScore",
         NumberOr(store, "likelihood", 50) * 10 - NumberOr(store, "distance", 9990) * 5)

\* Lines 128-130.
EnsureAvailability(store) ==
    IF Has(store, "availability") THEN store
    ELSE With(store, "availability",
              getAvailabilityStatus(NumberOr(store, "likelihood", 50)))

\* Lines 133-135.
EnsureEstimatedPrice(store, p) ==
    IF Has(store, "estimatedPrice") THEN store
    ELSE With(store, "estimatedPrice", getEstimatedPrice(p, store))

\* Lines 101-145: every store given its distance when absent, its
\* relevanceScore, and its availability and estimatedPrice when absent; then
\* the sort with threshold 10.
finderSortByDistanceAndRelevance(candidates, userLoc, p) ==
    ArraySort(
        MapSeq(candidates,
               LAMBDA store :
                   EnsureEstimatedPrice(
                       EnsureAvailability(WithRelevance(EnsureDistance(store, userLoc))), p)),
        [kind |-> "relevance", threshold |-> 100])

\* A store for which line 134 calls getEstimatedPrice and line 193,
\* `(store.name || '').toLowerCase()`, throws a TypeError: its name is a
\* number other than 0.
PriceThrows(store) == ~Has(store, "estimatedPrice") /\ ~IsString(store.name)

\* Lines 33-45, or the catch block of lines 47-50.
SortAndCut(filteredStores, userLoc, p) ==
    IF \E i \in 1..Len(filteredStores) : PriceThrows(filteredStores[i]) THEN Throw
    ELSE Ok(Slice(finderSortByDistanceAndRelevance(filteredStores, userLoc, p), 5))

\* Lines 27-50 of StoreFinderService.findNearbyStores, given what the locator
\* returned: the list, or the rethrown error.
finderFinish(located, p, userLoc, maxDist) ==
    SortAndCut(filterStoresByDistance(located, userLoc, maxDist), userLoc, p)

---------------------------------------------------------------------------
(* The inputs the model draws from.                                        *)

\* Longest list of places the provider answers with.
MaxPlaces == 2

\* Longest list of evaluations the availability oracle answers with.
MaxEvaluations == 2

\* Longest list of tags the classification oracle answers with.
MaxTags == 1

\* All sequences over S of length at most n.
RECURSIVE SeqsUpTo(_, _)
SeqsUpTo(S, n) ==
    IF n = 0 THEN {<<>>}
    ELSE LET shorter == SeqsUpTo(S, n - 1)
         IN  shorter \cup {Append(s, x) : s \in {t \in shorter : Len(t) = n - 1}, x \in S}

\* Distance budgets, tenths of a mile: the default 5 miles, and 2 miles.
Budgets == {50, 20}

Parts ==
    {[name |-> "Dishwasher Door Seal", category |-> "Seals & Gaskets"],
     [name |-> "Unidentified part"]}

FailedReplies ==
    {[kind |-> k] : k \in {"network_error", "http_error", "bad_body", "no_array", "unparseable"}}

\* What the classification oracle may answer to determineStoreTypes.
TagPalette == {"hardware_store", "restaurant"}

TypeReplies ==
    FailedReplies \cup {[kind |-> "array", items |-> ts] : ts \in SeqsUpTo(TagPalette, MaxTags)}

\* A point at an offset (1e-5 degree) from the origin.
Offset(userLoc, dLat, dLng) ==
    [latitude |-> userLoc.latitude + dLat, longitude |-> userLoc.longitude + dLng]

\* Places the provider may list around userLoc: at 1.8 mi, 7.0 mi, 0.5 mi,
\* 2.4 mi (its displayName.text a number), without a location, and one that
\* is not operational.
PlacePalette(userLoc) ==
    {[displayName |-> "The Home Depot", location |-> Offset(userLoc, 2000, -2000),
      businessStatus |-> "OPERATIONAL", types |-> <<"hardware_store", "store">>],
     [displayName |-> "Ace Hardware", location |-> Offset(userLoc, 10130, 0),
      businessStatus |-> "OPERATIONAL", types |-> <<"hardware_store", "store">>],
     [displayName |-> "Home Depot Cafe", location |-> Offset(userLoc, 724, 0),
      businessStatus |-> "OPERATIONAL", types |-> <<"restaurant", "food">>],
     [displayName |-> NumberName, location |-> Offset(userLoc, -2500, 3000),
      businessStatus |-> "OPERATIONAL"],
     [displayName |-> "Local Appliance Parts Center",
      businessStatus |-> "OPERATIONAL", types |-> <<"store", "establishment">>],
     [displayName |-> "Lowe's Home Improvement", location |-> Offset(userLoc, 4000, 5000),
      businessStatus |-> "CLOSED_PERMANENTLY", types |-> <<"home_goods_store", "hardware_store">>]}

PlaceReplies(userLoc) ==
    {[kind |-> k] : k \in {"network_error", "http_error", "bad_body", "places"}}
    \cup {[kind |-> "places", places |-> ps] : ps \in SeqsUpTo(PlacePalette(userLoc), MaxPlaces)}

\* Evaluations the availability oracle may list.
EvaluationPalette ==
    {[index |-> 1, likelihood |-> 90], [index |-> 2, likelihood |-> 82],
     [index |-> 2, likelihood |-> 150], [index |-> 1, likelihood |-> 59],
     [index |-> 0, likelihood |-> 90]}

EvaluationReplies ==
    FailedReplies
    \cup {[kind |-> "array", items |-> es] : es \in SeqsUpTo(EvaluationPalette, MaxEvaluations)}

---------------------------------------------------------------------------
(* One request through StoreFinderService.findNearbyStores.  The function  *)
(* suspends at the three awaits of AIStoreLocatorService.findNearbyStores; *)
(* pc names the await the request is at.                                    *)

\* A single request, its upstream answers drawn as they come.
\* The vendor pricing service as constructed (line 1120), no call made.
VendorIdle == cache = <<>> /\ clock = 0 /\ pricingCalls = <<>>

OneRequest == upstream = <<>> /\ earlier = <<>> /\ zipCode = "" /\ VendorIdle

\* The locals of a request that has not run yet.
NothingYet ==
    /\ storeTypes = <<>>
    /\ stores = <<>>
    /\ verifiedStores = <<>>
    /\ locatorCaught = FALSE
    /\ locatorResult = <<>>
    /\ finalStores = <<>>
    /\ outcome = "pending"

Init ==
    /\ OneRequest
    /\ pc = "classify"
    /\ openaiApiKey \in BOOLEAN
    /\ googlePlacesApiKey \in BOOLEAN
    /\ part \in Parts
    /\ userLocation = LosAngeles
    /\ maxDistance \in Budgets
    /\ NothingYet

\* What no step of a request writes: the keys of the service, the arguments
\* of the call, the answers set for the upstream services and the record of
\* an earlier request.
config == <<openaiApiKey, googlePlacesApiKey, part, userLocation, maxDistance,
            upstream, earlier, zipCode, cache, clock, pricingCalls>>

\* A classification after which the verification is started at once.
ClassifyDoneThenVerify(reply) ==
    /\ pc = "classify"
    /\ storeTypes' = determineStoreTypes(openaiApiKey, reply)
    /\ pc' = "verify"
    /\ UNCHANGED <<config, stores, verifiedStores, locatorCaught, locatorResult,
                   finalStores, outcome>>

\* Line 555: determineStoreTypes settles.
ClassifyDone(reply) ==
    /\ pc = "classify"
    /\ storeTypes' = determineStoreTypes(openaiApiKey, reply)
    /\ pc' = "search"
    /\ UNCHANGED <<config, stores, verifiedStores, locatorCaught, locatorResult,
                   finalStores, outcome>>

\* Line 559: searchRealNearbyStores settles.
SearchDone(reply) ==
    /\ pc = "search"
    /\ stores' = searchRealNearbyStores(googlePlacesApiKey, userLocation, maxDistance, reply)
    /\ pc' = "verify"
    /\ UNCHANGED <<config, storeTypes, verifiedStores, locatorCaught, locatorResult,
                   finalStores, outcome>>

\* Lines 563-586: verifyPartAvailability settles, and the locator runs to its
\* return (or through its catch block) without suspending again.
VerifyDone(reply) ==
    /\ pc = "verify"
    /\ \E verified \in {verifyPartAvailability(openaiApiKey, stores, reply)} :
           /\ verifiedStores' = verified.value
           /\ locatorCaught' = verified.threw
           /\ locatorResult' = locatorFinish(verified, userLocation, maxDistance)
    /\ pc' = "finder"
    /\ UNCHANGED <<config, storeTypes, stores, finalStores, outcome>>

\* A store stamped with the time of the answer, as the vendors' prices are
\* (aiStoreLocator.js lines 1292 and 1353: lastUpdated: new Date()).
Stamped(ranked, now) ==
    [i \in 1..Len(ranked) |-> With(ranked[i], "lastUpdated", now)]

\* A finder that stamps the stores it returns.
FinderDoneStamped ==
    /\ pc = "finder"
    /\ \E finished \in {finderFinish(locatorResult, part, userLocation, maxDistance)} :
           /\ finalStores' = Stamped(finished.value, clock)
           /\ outcome' = IF finished.threw THEN "threw" ELSE "returned"
    /\ pc' = "done"
    /\ UNCHANGED <<config, storeTypes, stores, verifiedStores, locatorCaught, locatorResult>>

\* Lines 27-50 of StoreFinderService.findNearbyStores: the locator's promise
\* has resolved; filter, sort, cut, return (or rethrow).
FinderDone ==
    /\ pc = "finder"
    /\ \E finished \in {finderFinish(locatorResult, part, userLocation, maxDistance)} :
           /\ finalStores' = finished.value
           /\ outcome' = IF finished.threw THEN "threw" ELSE "returned"
    /\ pc' = "done"
    /\ UNCHANGED <<config, storeTypes, stores, verifiedStores, locatorCaught, locatorResult>>

Next ==
    \/ \E reply \in TypeReplies : ClassifyDone(reply)
    \/ \E reply \in PlaceReplies(userLocation) : SearchDone(reply)
    \/ \E reply \in EvaluationReplies : VerifyDone(reply)
    \/ FinderDone

Spec == Init /\ [][Next]_vars

---------------------------------------------------------------------------
(* The same request when the provider and the availability oracle answer   *)
(* with long lists: more candidates than the result cap.                   *)

\* Longest list of places, and of evaluations, in these answers.
MaxManyPlaces == 6

\* Two stores within the default budget: at 1.8 mi and at 0.9 mi.
ManyPalette(userLoc) ==
    {[displayName |-> "The Home Depot", location |-> Offset(userLoc, 2000, -2000),
      businessStatus |-> "OPERATIONAL", types |-> <<"hardware_store", "store">>],
     [displayName |-> "Ace Hardware", location |-> Offset(userLoc, 1300, 0),
      businessStatus |-> "OPERATIONAL", types |-> <<"hardware_store", "store">>]}

ManyPlaceReplies(userLoc) ==
    {[kind |-> "http_error"]}
    \cup {[kind |-> "places", places |-> ps] :
              ps \in SeqsUpTo(ManyPalette(userLoc), MaxManyPlaces)}

\* The oracle fails, or lists the first store any number of times.
ManyEvaluationReplies ==
    {[kind |-> "no_array"]}
    \cup {[kind |-> "array", items |-> es] :
              es \in SeqsUpTo({[index |-> 1, likelihood |-> 90]}, MaxManyPlaces)}

InitMany ==
    /\ OneRequest
    /\ pc = "classify"
    /\ openaiApiKey \in BOOLEAN
    /\ googlePlacesApiKey \in BOOLEAN
    /\ part = [name |-> "Dishwasher Door Seal", category |-> "Seals & Gaskets"]
    /\ userLocation = LosAngeles
    /\ maxDistance = 50
    /\ NothingYet

NextMany ==
    \/ \E reply \in TypeReplies : ClassifyDone(reply)
    \/ \E reply \in ManyPlaceReplies(userLocation) : SearchDone(reply)
    \/ \E reply \in ManyEvaluationReplies : VerifyDone(reply)
    \/ FinderDone

SpecMany == InitMany /\ [][NextMany]_vars

---------------------------------------------------------------------------
(* The two rankers on their own: sortByDistanceAndRelevance of the locator *)
(* and of the finder, applied to every list of candidates, in every order. *)

\* Longest list of candidates handed to a ranker.
MaxRanked == 4

\* A candidate as it reaches a ranker: the store searchRealNearbyStores makes
\* of a place dLat (1e-5 degree) north of the origin, with the likelihood the
\* availability oracle gave it.
RankCandidate(name, likelihood, dLat) ==
    With(With(PlaceToStore([displayName |-> name,
                            location |-> Offset(LosAngeles, dLat, 0),
                            businessStatus |-> "OPERATIONAL",
                            types |-> <<"hardware_store", "store">>],
                           LosAngeles),
              "likelihood", likelihood),
         "aiReason", "oracle")

\* 90 at 4.0 mi and 82 at 0.5 mi (the spec's scenario), 82 at 0.0 mi, and
\* three candidates the finder's comparator orders in a cycle: 60 at 0.5 mi
\* before 68 at 1.0 mi before 80 at 1.8 mi before 60 at 0.5 mi.
RankPalette ==
    {RankCandidate("The Home Depot", 90, 5789),
     RankCandidate("Ace Hardware", 82, 724),
     RankCandidate("Local Appliance Parts Center", 82, 0),
     RankCandidate("Lowe's Home Improvement", 60, 724),
     RankCandidate("Vegas Appliance Repair", 68, 1447),
     RankCandidate("Unknown Store", 80, 2605)}

InitRank ==
    /\ OneRequest
    /\ pc = "rank"
    /\ openaiApiKey = TRUE
    /\ googlePlacesApiKey = TRUE
    /\ part = [name |-> "Dishwasher Door Seal", category |-> "Seals & Gaskets"]
    /\ userLocation = LosAngeles
    /\ maxDistance = 50
    /\ storeTypes = getFallbackStoreTypes
    /\ stores \in SeqsUpTo(RankPalette, MaxRanked)
    /\ verifiedStores = stores
    /\ locatorCaught = FALSE
    /\ locatorResult = <<>>
    /\ finalStores = <<>>
    /\ outcome = "pending"

\* aiStoreLocator.js line 568.
LocatorRanks ==
    /\ pc = "rank"
    /\ locatorResult' = locatorSortByDistanceAndRelevance(stores)
    /\ pc' = "rankAgain"
    /\ UNCHANGED <<config, storeTypes, stores, verifiedStores, locatorCaught,
                   finalStores, outcome>>

\* storeFinder.js line 33.
FinderRanks ==
    /\ pc = "rankAgain"
    /\ finalStores' = finderSortByDistanceAndRelevance(stores, userLocation, part)
    /\ pc' = "ranked"
    /\ UNCHANGED <<config, storeTypes, stores, verifiedStores, locatorCaught,
                   locatorResult, outcome>>

NextRank == LocatorRanks \/ FinderRanks

SpecRank == InitRank /\ [][NextRank]_vars

---------------------------------------------------------------------------
(* The heuristic verifier on its own, on every candidate the provider's    *)
(* names, type lists and distances make.                                   *)

\* Longest list of candidates handed to the heuristic verifier.
MaxCandidates == 1

\* Offsets north of the origin, 1e-5 degree: 0.5 mi, 1.8 mi and 4.0 mi, one
\* for each step of the distance bonus but the 5-point one.
HeuristicOffsets == {724, 2605, 5789}

HeuristicPalette ==
    {PlaceToStore([displayName |-> name, location |-> Offset(LosAngeles, dLat, 0),
                   businessStatus |-> "OPERATIONAL", types |-> types], LosAngeles) :
        name \in StoreNames, types \in TypeLists, dLat \in HeuristicOffsets}

InitHeuristic ==
    /\ OneRequest
    /\ pc = "heuristic"
    /\ openaiApiKey = FALSE
    /\ googlePlacesApiKey = TRUE
    /\ part = [name |-> "Dishwasher Door Seal", category |-> "Seals & Gaskets"]
    /\ userLocation = LosAngeles
    /\ maxDistance = 50
    /\ storeTypes = getFallbackStoreTypes
    /\ stores \in SeqsUpTo(HeuristicPalette, MaxCandidates)
    /\ verifiedStores = <<>>
    /\ locatorCaught = FALSE
    /\ locatorResult = <<>>
    /\ finalStores = <<>>
    /\ outcome = "pending"

\* heuristicStoreFiltering(stores, partName, partCategory) returns or throws.
HeuristicDone ==
    /\ pc = "heuristic"
    /\ \E scored \in {heuristicStoreFiltering(stores)} :
           /\ verifiedStores' = scored.value
           /\ locatorCaught' = scored.threw
    /\ pc' = "scored"
    /\ UNCHANGED <<config, storeTypes, stores, locatorResult, finalStores, outcome>>

NextHeuristic == HeuristicDone

SpecHeuristic == InitHeuristic /\ [][NextHeuristic]_vars

---------------------------------------------------------------------------
(* generateFallbackStores on its own, for origins across the United States *)
(* and every budget from 0.1 mi up.                                        *)

\* Largest budget, tenths of a mile.
MaxBudget == 60

\* Los Angeles, and ZIP codes 10001, 90210, 33101, 55101, 30301, 02101 and
\* 80201 of zipCodeToCoordinates (storeFinder.js lines 291-330).
FallbackOrigins ==
    {LosAngeles,
     [latitude |-> 4075050, longitude |-> -7399340],
     [latitude |-> 3409010, longitude |-> -11840650],
     [latitude |-> 2576170, longitude |-> -8019180],
     [latitude |-> 4495370, longitude |-> -9309000],
     [latitude |-> 3374900, longitude |-> -8438800],
     [latitude |-> 4236010, longitude |-> -7105890],
     [latitude |-> 3973920, longitude |-> -10499030]}

InitFallback ==
    /\ OneRequest
    /\ pc = "fallback"
    /\ openaiApiKey = FALSE
    /\ googlePlacesApiKey = FALSE
    /\ part = [name |-> "Dishwasher Door Seal", category |-> "Seals & Gaskets"]
    /\ userLocation \in FallbackOrigins
    /\ maxDistance \in 1..MaxBudget
    /\ NothingYet

\* generateFallbackStores(userLocation, part.name, maxDistance) returns.
FallbackDone ==
    /\ pc = "fallback"
    /\ locatorResult' = generateFallbackStores(userLocation, maxDistance)
    /\ pc' = "fellBack"
    /\ UNCHANGED <<config, storeTypes, stores, verifiedStores, locatorCaught,
                   finalStores, outcome>>

NextFallback == FallbackDone

SpecFallback == InitFallback /\ [][NextFallback]_vars

---------------------------------------------------------------------------
(* determineStoreTypes on its own, for answers of the classification       *)
(* oracle that repeat tags and name tags outside the closed set.           *)

\* Longest list of tags in these answers.
MaxTypeTags == 5

TypeTagPalette == {"hardware_store", "home_goods_store", "store", "restaurant"}

TypeTagReplies ==
    FailedReplies
    \cup {[kind |-> "array", items |-> ts] : ts \in SeqsUpTo(TypeTagPalette, MaxTypeTags)}

InitStoreTypes ==
    /\ OneRequest
    /\ pc = "classify"
    /\ openaiApiKey \in BOOLEAN
    /\ googlePlacesApiKey = TRUE
    /\ part = [name |-> "Dishwasher Door Seal", category |-> "Seals & Gaskets"]
    /\ userLocation = LosAngeles
    /\ maxDistance = 50
    /\ NothingYet

NextStoreTypes == \E reply \in TypeTagReplies : ClassifyDone(reply)

SpecStoreTypes == InitStoreTypes /\ [][NextStoreTypes]_vars

---------------------------------------------------------------------------
(* The request and its upstream calls in time.  Each of the three awaits   *)
(* of the locator waits for a fetch whenever the key of its service is     *)
(* configured (lines 675, 749, 870); the fetch is made without a signal,   *)
(* a timer or a race, so only the answer of the upstream service resumes   *)
(* the request.  Without the key (lines 649, 738, 839), and with no        *)
(* candidate to verify (line 839), the step makes no call and resumes on   *)
(* the next turn of the event loop, as does the finder once the locator    *)
(* has returned.                                                           *)

\* Answers of the three services, when they come: a failure, or a list of at
\* most one item.
TypeAnswers ==
    {reply \in TypeReplies : reply.kind \in {"http_error", "array"}}

PlaceAnswers(userLoc) ==
    {reply \in PlaceReplies(userLoc) :
        reply.kind = "network_error" \/ (Has(reply, "places") /\ Len(reply.places) <= 1)}

EvaluationAnswers ==
    {reply \in EvaluationReplies :
        reply.kind = "unparseable" \/ (IsArrayReply(reply) /\ Len(reply.items) <= 1)}

InitUnanswered ==
    /\ OneRequest
    /\ pc = "classify"
    /\ openaiApiKey \in BOOLEAN
    /\ googlePlacesApiKey \in BOOLEAN
    /\ part \in Parts
    /\ userLocation = LosAngeles
    /\ maxDistance = 50
    /\ NothingYet

\* A step of the request that waits for no upstream answer: the classifier or
\* the verifier without its key, the search without its key, the verifier
\* without candidates, the finder.  What such a step is given as the reply
\* is not read.
OwnStep ==
    \/ /\ ~openaiApiKey
       /\ ClassifyDone([kind |-> "network_error"])
    \/ /\ ~googlePlacesApiKey
       /\ SearchDone([kind |-> "network_error"])
    \/ /\ ~openaiApiKey \/ Len(stores) = 0
       /\ VerifyDone([kind |-> "network_error"])
    \/ FinderDone

\* A step that an upstream answer resumes.
AnsweredStep ==
    \/ /\ openaiApiKey
       /\ \E reply \in TypeAnswers : ClassifyDone(reply)
    \/ /\ googlePlacesApiKey
       /\ \E reply \in PlaceAnswers(userLocation) : SearchDone(reply)
    \/ /\ openaiApiKey /\ Len(stores) # 0
       /\ \E reply \in EvaluationAnswers : VerifyDone(reply)

NextUnanswered == OwnStep \/ AnsweredStep

\* The request moves on by a step of its own: every step of NextUnanswered
\* moves pc, and from these states the step is one of OwnStep.
OwnProgress ==
    \/ pc = "classify" /\ ~openaiApiKey /\ pc' = "search"
    \/ pc = "search" /\ ~googlePlacesApiKey /\ pc' = "verify"
    \/ pc = "verify" /\ (~openaiApiKey \/ Len(stores) = 0) /\ pc' = "finder"
    \/ pc = "finder" /\ pc' = "done"

\* The request moves on by an upstream answer.
AnsweredProgress ==
    \/ pc = "classify" /\ openaiApiKey /\ pc' = "search"
    \/ pc = "search" /\ googlePlacesApiKey /\ pc' = "verify"
    \/ pc = "verify" /\ openaiApiKey /\ Len(stores) # 0 /\ pc' = "finder"

\* The event loop runs the request's own steps; the upstream services answer
\* or do not.
SpecUnanswered == InitUnanswered /\ [][NextUnanswered]_vars /\ WF_pc(OwnProgress)

\* Every upstream call is answered.
SpecAnswered ==
    InitUnanswered /\ [][NextUnanswered]_vars /\ WF_pc(OwnProgress) /\ WF_pc(AnsweredProgress)

---------------------------------------------------------------------------
(* The request with a distance budget that is not positive.  An explicit   *)
(* 0 or negative argument is not replaced by the default of 5 miles: the   *)
(* default parameter applies to undefined only.                            *)

\* Budgets of 0 and of -1 mile, in tenths of a mile.
NonPositiveBudgets == {0, -10}

InitNonPositive ==
    /\ OneRequest
    /\ pc = "classify"
    /\ openaiApiKey \in BOOLEAN
    /\ googlePlacesApiKey \in BOOLEAN
    /\ part \in Parts
    /\ userLocation = LosAngeles
    /\ maxDistance \in NonPositiveBudgets
    /\ NothingYet

SpecNonPositive == InitNonPositive /\ [][Next]_vars

---------------------------------------------------------------------------
(* The same request made twice on the same service objects, the upstream   *)
(* services answering the second request as they answered the first.  The  *)
(* two services are module-level singletons (storeFinder.js line 419,      *)
(* aiStoreLocator.js line 1109); the locals of the second call are fresh   *)
(* bindings that nothing reads before they are assigned, so the model      *)
(* leaves the first call's values in them: a step that read one of them    *)
(* early would show as a difference between the two results.               *)

\* Longest list of places, and of evaluations, in the answers set for the
\* two requests.
MaxReplayed == 2

\* Places at 1.8 mi, at the origin (no location), and one whose name is not
\* a string.
ReplayedPlaces(userLoc) ==
    {place \in PlacePalette(userLoc) :
        place.displayName \in {"The Home Depot", "Local Appliance Parts Center", NumberName}}

ReplayedEvaluations ==
    {[index |-> 1, likelihood |-> 82], [index |-> 2, likelihood |-> 90],
     [index |-> 1, likelihood |-> 59]}

\* The answers set for the three upstream calls of both requests.
ReplayedAnswers(userLoc) ==
    [types : {[kind |-> "http_error"], [kind |-> "array", items |-> <<"hardware_store">>]},
     places : {[kind |-> "network_error"], [kind |-> "http_error"], [kind |-> "places"]}
              \cup {[kind |-> "places", places |-> ps] :
                        ps \in SeqsUpTo(ReplayedPlaces(userLoc), MaxReplayed)},
     evaluations : {[kind |-> "network_error"], [kind |-> "unparseable"]}
                   \cup {[kind |-> "array", items |-> es] :
                             es \in SeqsUpTo(ReplayedEvaluations, MaxReplayed)}]

InitTwice ==
    /\ zipCode = ""
    /\ VendorIdle
    /\ pc = "classify"
    /\ openaiApiKey \in BOOLEAN
    /\ googlePlacesApiKey \in BOOLEAN
    /\ part = [name |-> "Dishwasher Door Seal", category |-> "Seals & Gaskets"]
    /\ userLocation = LosAngeles
    /\ maxDistance = 50
    /\ upstream \in ReplayedAnswers(LosAngeles)
    /\ earlier = <<>>
    /\ NothingYet

\* The first request has settled; the caller makes the same call again.
CallAgain ==
    /\ pc = "done"
    /\ earlier = <<>>
    /\ earlier' = [finalStores |-> finalStores, outcome |-> outcome, at |-> clock]
    /\ pc' = "classify"
    /\ UNCHANGED <<openaiApiKey, googlePlacesApiKey, part, userLocation, maxDistance,
                   upstream, zipCode, cache, clock, pricingCalls, storeTypes, stores,
                   verifiedStores, locatorCaught, locatorResult, finalStores, outcome>>

NextTwice ==
    \/ ClassifyDone(upstream.types)
    \/ SearchDone(upstream.places)
    \/ VerifyDone(upstream.evaluations)
    \/ FinderDone
    \/ CallAgain

SpecTwice == InitTwice /\ [][NextTwice]_vars

---------------------------------------------------------------------------
(* The two distance filters on their own: applyStrictDistanceFilter of the *)
(* locator and filterStoresByDistance of the finder, applied to lists of   *)
(* candidates that carry a distance, carry none, or carry one that is not  *)
(* the distance of their coordinates.                                      *)

\* Longest list of candidates handed to a filter.
MaxFiltered == 3

\* A store dLat (1e-5 degree) north of the origin that carries no distance.
Unmeasured(name, dLat) ==
    [id |-> "unknown", name |-> name,
     coordinates |-> [lat |-> LosAngeles.latitude + dLat, lng |-> LosAngeles.longitude],
     types |-> <<"hardware_store", "store">>, source |-> "google_places"]

\* Stores at 1.8 mi, at 5.0 mi and at 5.1 mi with their distance, a store at
\* 1.8 mi without one, a store at 7.0 mi that carries 1.0 mi and a store at
\* 1.8 mi that carries 8.0 mi.
FilterPalette ==
    {WithDistance(Unmeasured("The Home Depot", 2605), LosAngeles),
     WithDistance(Unmeasured("Ace Hardware", 7236), LosAngeles),
     WithDistance(Unmeasured("Lowe's Home Improvement", 7381), LosAngeles),
     Unmeasured("Unknown Store", 2605),
     SetDistance(Unmeasured("Vegas Appliance Repair", 10130), 10),
     SetDistance(Unmeasured("Local Appliance Parts Center", 2605), 80)}

InitFilter ==
    /\ OneRequest
    /\ pc = "filter"
    /\ openaiApiKey = TRUE
    /\ googlePlacesApiKey = TRUE
    /\ part = [name |-> "Dishwasher Door Seal", category |-> "Seals & Gaskets"]
    /\ userLocation = LosAngeles
    /\ maxDistance = 50
    /\ storeTypes = getFallbackStoreTypes
    /\ stores \in SeqsUpTo(FilterPalette, MaxFiltered)
    /\ verifiedStores = stores
    /\ locatorCaught = FALSE
    /\ locatorResult = <<>>
    /\ finalStores = <<>>
    /\ outcome = "pending"

\* aiStoreLocator.js line 567.
LocatorFilters ==
    /\ pc = "filter"
    /\ locatorResult' = applyStrictDistanceFilter(stores, userLocation, maxDistance)
    /\ pc' = "filterAgain"
    /\ UNCHANGED <<config, storeTypes, stores, verifiedStores, locatorCaught,
                   finalStores, outcome>>

\* storeFinder.js line 30.
FinderFilters ==
    /\ pc = "filterAgain"
    /\ finalStores' = filterStoresByDistance(stores, userLocation, maxDistance)
    /\ pc' = "filtered"
    /\ UNCHANGED <<config, storeTypes, stores, verifiedStores, locatorCaught,
                   locatorResult, outcome>>

NextFilter == LocatorFilters \/ FinderFilters

SpecFilter == InitFilter /\ [][NextFilter]_vars

---------------------------------------------------------------------------
(* The heuristic verifier on candidates at every step of its distance      *)
(* bonus: at the origin, within 1, 2 and 3 miles (the bounds included),    *)
(* and beyond.                                                             *)

\* Longest list of candidates in these runs.
MaxNear == 2

\* Offsets north of the origin, 1e-5 degree: 0.0, 0.5, 1.0, 1.8, 2.0, 2.5,
\* 3.0 and 4.0 mi.
ProximityOffsets == {0, 724, 1447, 2605, 2894, 3618, 4342, 5789}

\* Two chains without type tags: 70 points before the distance bonus, so
\* that every bonus shows in the likelihood and none is clamped or dropped.
ProximityPalette ==
    {PlaceToStore([displayName |-> name, location |-> Offset(LosAngeles, dLat, 0),
                   businessStatus |-> "OPERATIONAL"], LosAngeles) :
        name \in {"The Home Depot", "Lowe's Home Improvement"}, dLat \in ProximityOffsets}

InitProximity ==
    /\ OneRequest
    /\ pc = "heuristic"
    /\ openaiApiKey = FALSE
    /\ googlePlacesApiKey = TRUE
    /\ part = [name |-> "Dishwasher Door Seal", category |-> "Seals & Gaskets"]
    /\ userLocation = LosAngeles
    /\ maxDistance = 50
    /\ storeTypes = getFallbackStoreTypes
    /\ stores \in SeqsUpTo(ProximityPalette, MaxNear)
    /\ verifiedStores = <<>>
    /\ locatorCaught = FALSE
    /\ locatorResult = <<>>
    /\ finalStores = <<>>
    /\ outcome = "pending"

SpecProximity == InitProximity /\ [][NextHeuristic]_vars

---------------------------------------------------------------------------
(* The finder's ranker pricing stores of every likelihood tier and every   *)
(* kind of name, for parts of every category getEstimatedPrice knows.      *)

\* Longest list of stores priced together.
MaxPriced == 2

\* A big-box chain, a neutral name and a specialty name, 1.8 mi away, with
\* likelihoods on both sides of the tier bounds 70 and 85.
PricePalette ==
    {RankCandidate(name, likelihood, 2605) :
        name \in {"The Home Depot", "Ace Hardware", "Local Appliance Parts Center"},
        likelihood \in {60, 70, 84, 85, 100}}

InitPrice ==
    /\ OneRequest
    /\ pc = "rankAgain"
    /\ openaiApiKey = TRUE
    /\ googlePlacesApiKey = TRUE
    /\ part \in {[name |-> "Unidentified part"]}
                 \cup {[name |-> "Replacement part", category |-> c] : c \in PartCategories}
    /\ userLocation = LosAngeles
    /\ maxDistance = 50
    /\ storeTypes = getFallbackStoreTypes
    /\ stores \in SeqsUpTo(PricePalette, MaxPriced)
    /\ verifiedStores = stores
    /\ locatorCaught = FALSE
    /\ locatorResult = stores
    /\ finalStores = <<>>
    /\ outcome = "pending"

SpecPrice == InitPrice /\ [][FinderRanks]_vars

---------------------------------------------------------------------------
(* The verification of a long candidate list: the provider may list up to  *)
(* 20 places (maxResultCount, line 758), the prompt of the availability    *)
(* oracle lists the first 15 candidates (line 845).                        *)

\* Longest list of evaluations in the oracle's answers to these requests.
MaxLongEvaluations == 2

\* n operational hardware stores, the i-th one 0.2 x i mi north of the origin.
LongPlaces(n) ==
    [i \in 1..n |->
        [displayName |-> "Ace Hardware", location |-> Offset(LosAngeles, 290 * i, 0),
         businessStatus |-> "OPERATIONAL", types |-> <<"hardware_store", "store">>]]

\* stores.slice(0, 15), the candidates the prompt lists.
PresentedStores(candidates) == Slice(candidates, 15)

\* Evaluations that name the first, the 15th, the 16th and the 17th entry.
LongEvaluationReplies ==
    FailedReplies
    \cup {[kind |-> "array", items |-> es] :
              es \in SeqsUpTo({[index |-> i, likelihood |-> l] :
                                  i \in {1, 15, 16, 17}, l \in {90, 75, 59}},
                              MaxLongEvaluations)}

InitLong ==
    /\ OneRequest
    /\ pc = "verify"
    /\ openaiApiKey = TRUE
    /\ googlePlacesApiKey = TRUE
    /\ part = [name |-> "Dishwasher Door Seal", category |-> "Seals & Gaskets"]
    /\ userLocation = LosAngeles
    /\ maxDistance = 50
    /\ storeTypes = getFallbackStoreTypes
    /\ \E n \in {15, 16, 17} :
           stores = searchRealNearbyStores(TRUE, LosAngeles, 50,
                                           [kind |-> "places", places |-> LongPlaces(n)])
    /\ verifiedStores = <<>>
    /\ locatorCaught = FALSE
    /\ locatorResult = <<>>
    /\ finalStores = <<>>
    /\ outcome = "pending"

NextLong ==
    \/ \E reply \in LongEvaluationReplies : VerifyDone(reply)
    \/ FinderDone

SpecLong == InitLong /\ [][NextLong]_vars

---------------------------------------------------------------------------
(* More verified candidates than the cut keeps: the provider lists six     *)
(* operational stores within the budget and the oracle accepts all of them. *)

\* Number of candidates that survive verification and the distance filter.
MaxSurvivors == 6

SurvivorNames ==
    <<"The Home Depot", "Ace Hardware", "Lowe's Home Improvement",
      "Local Appliance Parts Center", "Vegas Appliance Repair", "Unknown Store",
      "Home Depot Cafe", "Joe's Pizza">>

\* Offsets north of the origin, 1e-5 degree: 0.0 mi and 1.0 mi.
SurvivorOffsets == {0, 1447}

SurvivorLikelihoods == {80, 90}

\* The provider's lists of MaxSurvivors places, each at one of the offsets.
SurvivorPlaces(userLoc) ==
    {[i \in 1..MaxSurvivors |->
         [displayName |-> SurvivorNames[i], location |-> Offset(userLoc, offsets[i], 0),
          businessStatus |-> "OPERATIONAL", types |-> <<"hardware_store", "store">>]] :
         offsets \in [1..MaxSurvivors -> SurvivorOffsets]}

\* The oracle fails, or accepts every candidate with one of the likelihoods.
SurvivorEvaluationReplies ==
    {[kind |-> "no_array"]}
    \cup {[kind |-> "array",
           items |-> [i \in 1..MaxSurvivors |-> [index |-> i, likelihood |-> ls[i]]]] :
              ls \in [1..MaxSurvivors -> SurvivorLikelihoods]}

InitSurvivors ==
    /\ OneRequest
    /\ pc = "verify"
    /\ openaiApiKey = TRUE
    /\ googlePlacesApiKey = TRUE
    /\ part = [name |-> "Dishwasher Door Seal", category |-> "Seals & Gaskets"]
    /\ userLocation = LosAngeles
    /\ maxDistance = 50
    /\ storeTypes = getFallbackStoreTypes
    /\ \E places \in SurvivorPlaces(LosAngeles) :
           stores = searchRealNearbyStores(TRUE, LosAngeles, 50,
                                           [kind |-> "places", places |-> places])
    /\ verifiedStores = <<>>
    /\ locatorCaught = FALSE
    /\ locatorResult = <<>>
    /\ finalStores = <<>>
    /\ outcome = "pending"

NextSurvivors ==
    \/ \E reply \in SurvivorEvaluationReplies : VerifyDone(reply)
    \/ FinderDone

SpecSurvivors == InitSurvivors /\ [][NextSurvivors]_vars

---------------------------------------------------------------------------
(* A request by ZIP code: StoreFinderService.findStoresByZipCode resolves   *)
(* the ZIP code with zipCodeToCoordinates, then calls findNearbyStores.     *)

\* The text of a JSON number is the sequence of its characters.
DecimalDigits == <<"0", "1", "2", "3", "4", "5", "6", "7", "8", "9">>

RECURSIVE ParseDigits(_)
ParseDigits(cs) ==
    IF cs = <<>> THEN 0
    ELSE ParseDigits(SubSeq(cs, 1, Len(cs) - 1)) * 10
         + (CHOOSE d \in 0..9 : DecimalDigits[d + 1] = cs[Len(cs)])

RECURSIVE TenTo(_)
TenTo(n) == IF n = 0 THEN 1 ELSE 10 * TenTo(n - 1)

\* parseFloat of a decimal text of at most 5 decimals, in 1e-5 degree.
parseFloat(cs) ==
    LET negative == cs[1] = "-"
        body == IF negative THEN Tail(cs) ELSE cs
        dot == IF \E i \in 1..Len(body) : body[i] = "."
               THEN CHOOSE i \in 1..Len(body) : body[i] = "."
               ELSE Len(body) + 1
        decimals == SubSeq(body, dot + 1, Len(body))
        value == ParseDigits(SubSeq(body, 1, dot - 1)) * 100000
                 + ParseDigits(decimals) * TenTo(5 - Len(decimals))
    IN  IF negative THEN 0 - value ELSE value

\* Lines 308-319, coordinates in 1e-5 degree.
zipCodeMap ==
    "10001" :> [latitude |-> 4075050, longitude |-> -7399340, city |-> "New York", state |-> "NY"]
    @@ "90210" :> [latitude |-> 3409010, longitude |-> -11840650, city |-> "Beverly Hills", state |-> "CA"]
    @@ "60601" :> [latitude |-> 4187810, longitude |-> -8762980, city |-> "Chicago", state |-> "IL"]
    @@ "77001" :> [latitude |-> 2976040, longitude |-> -9536980, city |-> "Houston", state |-> "TX"]
    @@ "33101" :> [latitude |-> 2576170, longitude |-> -8019180, city |-> "Miami", state |-> "FL"]
    @@ "55101" :> [latitude |-> 4495370, longitude |-> -9309000, city |-> "Saint Paul", state |-> "MN"]
    @@ "30301" :> [latitude |-> 3374900, longitude |-> -8438800, city |-> "Atlanta", state |-> "GA"]
    @@ "02101" :> [latitude |-> 4236010, longitude |-> -7105890, city |-> "Boston", state |-> "MA"]
    @@ "98101" :> [latitude |-> 4760620, longitude |-> -12233210, city |-> "Seattle", state |-> "WA"]
    @@ "80201" :> [latitude |-> 3973920, longitude |-> -10499030, city |-> "Denver", state |-> "CO"]

\* The null of lines 326 and 329.
NoLocation == <<>>

\* zipCodeToCoordinates(zipCode), given how the fetch of line 293 ends.
zipCodeToCoordinates(zip, reply) ==
    IF reply.kind = "network_error" THEN NoLocation
    ELSE IF reply.kind = "ok"
    THEN IF reply.places = <<>> THEN NoLocation
         ELSE [latitude |-> parseFloat(reply.places[1].latitude),
               longitude |-> parseFloat(reply.places[1].longitude),
               zipCode |-> zip,
               city |-> reply.places[1].placeName,
               state |-> reply.places[1].stateAbbreviation]
    ELSE IF zip \in DOMAIN zipCodeMap THEN With(zipCodeMap[zip], "zipCode", zip)
    ELSE NoLocation

\* The ZIP codes of the table, and two outside it.
ZipCodes == DOMAIN zipCodeMap \cup {"99999", "1234"}

\* The fetch rejects, the geocoder answers 404 or 500, it answers 200 with a
\* place, or 200 with no place.
GeocoderReplies ==
    {[kind |-> "network_error"], [kind |-> "http_error"],
     [kind |-> "ok", places |-> <<>>],
     [kind |-> "ok",
      places |-> <<[latitude |-> <<"4", "0", ".", "7", "4", "8", "4">>,
                    longitude |-> <<"-", "7", "3", ".", "9", "9", "6", "7">>,
                    placeName |-> "New York City", stateAbbreviation |-> "NY"]>>]}

InvalidZip == "Invalid ZIP code or location not found"

InitZip ==
    /\ pc = "zip"
    /\ zipCode \in ZipCodes
    /\ upstream \in {[geocoder |-> reply] : reply \in GeocoderReplies}
    /\ earlier = <<>>
    /\ VendorIdle
    /\ openaiApiKey \in BOOLEAN
    /\ googlePlacesApiKey \in BOOLEAN
    /\ part = [name |-> "Dishwasher Door Seal", category |-> "Seals & Gaskets"]
    /\ userLocation = NoLocation
    /\ maxDistance = 50
    /\ NothingYet

\* Lines 268-284: zipCodeToCoordinates settles; the call rejects, or goes on
\* with findNearbyStores(part, location, maxDistance).
ZipDone ==
    /\ pc = "zip"
    /\ \E location \in {zipCodeToCoordinates(zipCode, upstream.geocoder)} :
           IF location = NoLocation
           THEN /\ outcome' = InvalidZip
                /\ pc' = "done"
                /\ UNCHANGED userLocation
           ELSE /\ userLocation' = location
                /\ pc' = "classify"
                /\ UNCHANGED outcome
    /\ UNCHANGED <<openaiApiKey, googlePlacesApiKey, part, maxDistance, upstream, earlier,
                   zipCode, cache, clock, pricingCalls, storeTypes, stores, verifiedStores, locatorCaught,
                   locatorResult, finalStores>>

NextZip ==
    \/ ZipDone
    \/ /\ userLocation # NoLocation
       /\ NextUnanswered

SpecZip == InitZip /\ [][NextZip]_vars

---------------------------------------------------------------------------
(* VendorAPIsService (aiStoreLocator.js lines 1118-1543): the pricing cache *)
(* under concurrent getVendorPricing calls and clearExpiredCache sweeps.    *)
(* A call runs from its start to the await of line 1182 in one step, and    *)
(* from there to its return in another; time passes between the steps.     *)

\* Latest time, in units of 7.5 minutes: later than cacheTimeout, so that
\* entries grow older than the timeout and clearExpiredCache removes them.
MaxClock == 3

\* Number of getVendorPricing calls.
MaxPricingCalls == 3

\* 15 * 60 * 1000 ms, in units of 7.5 minutes.
cacheTimeout == 2

\* Part numbers and brands are given by their characters.
PricingParts ==
    {[partNumber |-> <<"W", "1", "0">>, brand |-> <<"G", "E">>],
     [partNumber |-> <<"W", "1", "1">>, brand |-> <<"G", "E">>]}

\* `pricing_${part.partNumber}_${part.brand}`.toLowerCase()
generateCacheKey(p) ==
    toLowerCase(<<"p", "r", "i", "c", "i", "n", "g", "_">> \o p.partNumber \o <<"_">> \o p.brand)

\* An entry that is served one instant longer.
CacheFreshOrJustExpired(entry, now) == now - entry.timestamp <= cacheTimeout

\* Line 1169: Date.now() - cached.timestamp < this.cacheTimeout
CacheFresh(entry, now) == now - entry.timestamp < cacheTimeout

\* this.cache.set(key, entry)
CacheSet(c, key, entry) ==
    [k \in DOMAIN c \cup {key} |-> IF k = key THEN entry ELSE c[k]]

\* clearExpiredCache at time `now`: the entries that are left.
clearExpiredCache(c, now) ==
    [k \in {key \in DOMAIN c : ~(now - c[key].timestamp > cacheTimeout)} |-> c[k]]

\* What a call finds in the cache for its key when it starts.
Found(c, key, now) ==
    IF key \in DOMAIN c
    THEN [present |-> TRUE, age |-> now - c[key].timestamp, entry |-> c[key]]
    ELSE [present |-> FALSE]

\* The finder has no request.
InitCache ==
    /\ pc = "idle"
    /\ openaiApiKey = FALSE
    /\ googlePlacesApiKey = FALSE
    /\ part = <<>>
    /\ userLocation = <<>>
    /\ maxDistance = 50
    /\ upstream = <<>>
    /\ earlier = <<>>
    /\ zipCode = ""
    /\ NothingYet
    /\ VendorIdle

\* The variables of the finder's request.
finder == <<pc, openaiApiKey, googlePlacesApiKey, part, userLocation, maxDistance,
            storeTypes, stores, verifiedStores, locatorCaught, locatorResult,
            finalStores, outcome, upstream, earlier, zipCode>>

\* Lines 1162-1182: getVendorPricing(p) is called; it returns the cached
\* data, or starts the vendors' requests and awaits them.
StartPricing(p) ==
    /\ Len(pricingCalls) < MaxPricingCalls
    /\ \E key \in {generateCacheKey(p)} :
           pricingCalls' =
               Append(pricingCalls,
                      IF key \in DOMAIN cache /\ CacheFresh(cache[key], clock)
                      THEN [part |-> p, state |-> "returned", from |-> "cache",
                            found |-> Found(cache, key, clock),
                            result |-> cache[key].data]
                      ELSE [part |-> p, state |-> "fetching",
                            found |-> Found(cache, key, clock)])
    /\ UNCHANGED <<finder, cache, clock>>

\* Lines 1182-1202: the vendors' requests of call i have settled, with some
\* vendor's data or with none (the fallback pricing); the call caches what
\* it returns.
CompletePricing(i, answered) ==
    /\ i \in 1..Len(pricingCalls)
    /\ pricingCalls[i].state = "fetching"
    /\ \E entry \in {[data |-> [kind |-> IF answered THEN "vendors" ELSE "fallback",
                                 part |-> pricingCalls[i].part, asOf |-> clock],
                       timestamp |-> clock]} :
           /\ cache' = CacheSet(cache, generateCacheKey(pricingCalls[i].part), entry)
           /\ pricingCalls' =
                  [pricingCalls EXCEPT ![i] =
                      [part |-> pricingCalls[i].part, state |-> "returned", from |-> "fetch",
                       found |-> pricingCalls[i].found, result |-> entry.data,
                       wrote |-> entry, at |-> clock]]
    /\ UNCHANGED <<finder, clock>>

\* Lines 1455-1462.
Sweep ==
    /\ cache' = clearExpiredCache(cache, clock)
    /\ UNCHANGED <<finder, clock, pricingCalls>>

\* 7.5 minutes pass.
Tick ==
    /\ clock < MaxClock
    /\ clock' = clock + 1
    /\ UNCHANGED <<finder, cache, pricingCalls>>

NextCache ==
    \/ \E p \in PricingParts : StartPricing(p)
    \/ \E i \in 1..MaxPricingCalls, answered \in BOOLEAN : CompletePricing(i, answered)
    \/ Sweep
    \/ Tick

SpecCache == InitCache /\ [][NextCache]_vars

---------------------------------------------------------------------------
(* The same request made twice in a process that does other things: time   *)
(* passes before, during and between the two requests, and the vendor      *)
(* pricing service, the third singleton of the module (aiStoreLocator.js   *)
(* line 1543), serves a call and sweeps its cache meanwhile.  The clock,   *)
(* the cache and the random numbers of getMockVendorPricing (lines 1306,   *)
(* 1327) are what the process holds besides the arguments and the upstream *)
(* answers; the second request runs in a state that differs in them.       *)

\* The answers set for both requests: each upstream call fails, or answers
\* with a list of two whose first entry is the store at 1.8 mi.
LaterAnswers(userLoc) ==
    {answers \in ReplayedAnswers(userLoc) :
        /\ Has(answers.places, "places") =>
               /\ Len(answers.places.places) = 2
               /\ answers.places.places[1].displayName = "The Home Depot"
        /\ Has(answers.evaluations, "items") =>
               /\ Len(answers.evaluations.items) = 2
               /\ answers.evaluations.items[1] = [index |-> 1, likelihood |-> 82]}

InitLater ==
    /\ zipCode = ""
    /\ VendorIdle
    /\ pc = "classify"
    /\ openaiApiKey \in BOOLEAN
    /\ googlePlacesApiKey \in BOOLEAN
    /\ part = [name |-> "Dishwasher Door Seal", category |-> "Seals & Gaskets"]
    /\ userLocation = LosAngeles
    /\ maxDistance = 50
    /\ upstream \in LaterAnswers(LosAngeles)
    /\ earlier = <<>>
    /\ NothingYet

\* One getVendorPricing call is started while the finder's requests run.
PricingMeanwhile ==
    /\ pricingCalls = <<>>
    /\ \E p \in PricingParts : StartPricing(p)

NextLater ==
    \/ NextTwice
    \/ Tick
    \/ PricingMeanwhile
    \/ \E answered \in BOOLEAN : CompletePricing(1, answered)
    \/ Sweep

SpecLater == InitLater /\ [][NextLater]_vars

---------------------------------------------------------------------------
(* Properties of the request.                                              *)

\* The distance of a store from the origin of the request, by its coordinates.
DistanceFromOrigin(store) ==
    calculateDistance(userLocation.latitude, userLocation.longitude,
                      store.coordinates.lat, store.coordinates.lng)

\* C1: every store of the list findNearbyStores returns lies, by the
\* haversine distance of its coordinates rounded to 0.1 mi, within
\* maxDistance of the origin, whatever the oracles and the provider answered.
C1_WithinBudget ==
    outcome = "returned" =>
        \A i \in 1..Len(finalStores) : DistanceFromOrigin(finalStores[i]) <= maxDistance

\* A provider's store at 1.8 mi is returned under a budget of 2 miles.
C1_Witness ==
    /\ outcome = "returned"
    /\ maxDistance = 20
    /\ \E i \in 1..Len(finalStores) :
           /\ finalStores[i].source = "google_places"
           /\ DistanceFromOrigin(finalStores[i]) = 18

\* C2: the list findNearbyStores returns never has more than 5 entries,
\* whatever came back upstream, the fallback stores included.
C2_AtMostFive == outcome = "returned" => Len(finalStores) <= 5

\* Six candidates or more entered the verifier and six or more left it, and
\* the request returned five stores.
C2_Witness ==
    /\ outcome = "returned"
    /\ Len(stores) >= 6
    /\ Len(verifiedStores) >= 6
    /\ Len(finalStores) = 5

\* Adjacent stores of a ranked list: the first has the higher (or the same)
\* relevanceScore, or the two scores are within the threshold and the first
\* is not farther away.
AdjacentInOrder(ranked, threshold) ==
    \A i \in 1..(Len(ranked) - 1) :
        \/ ranked[i].relevanceScore >= ranked[i + 1].relevanceScore
        \/ /\ Abs(ranked[i].relevanceScore - ranked[i + 1].relevanceScore) <= threshold
           /\ ranked[i].distance <= ranked[i + 1].distance

\* C3: in the finder's ranked list every two adjacent stores r1, r2 have
\* r1.relevanceScore >= r2.relevanceScore, or scores within the tie-break
\* threshold (10 points) and r1.distance <= r2.distance, for every number of
\* candidates and every input order; the locator's list has the same property
\* with its own threshold (15 points).
C3_AdjacentPairs ==
    /\ pc \in {"rankAgain", "ranked"} => AdjacentInOrder(locatorResult, 150)
    /\ pc = "ranked" => AdjacentInOrder(finalStores, 100)

\* The finder ranked three candidates or more, a tie was broken by distance
\* against the scores, and another pair was ordered by score against the
\* distances.
C3_Witness ==
    /\ pc = "ranked"
    /\ Len(finalStores) >= 3
    /\ \E i \in 1..(Len(finalStores) - 1) :
           finalStores[i].relevanceScore < finalStores[i + 1].relevanceScore
    /\ \E i \in 1..(Len(finalStores) - 1) :
           finalStores[i].distance > finalStores[i + 1].distance

\* C4: when two candidates reach the rankers with likelihoods less than the
\* tie-break threshold (10 points) apart and at different distances, the
\* closer one comes first in the locator's list and in the finder's list,
\* a distance of 0.0 mi included, in whichever order the two were supplied.
C4_CloserFirst ==
    (/\ pc = "ranked"
     /\ Len(stores) = 2
     /\ Abs(stores[1].likelihood - stores[2].likelihood) < 10
     /\ stores[1].distance # stores[2].distance)
    => /\ locatorResult[1].distance < locatorResult[2].distance
       /\ finalStores[1].distance < finalStores[2].distance

\* C4, for two candidates that are both away from the origin (neither
\* distance rounds to 0.0 mi): the closer one comes first.
C4_CloserFirstAwayFromOrigin ==
    (/\ pc = "ranked"
     /\ Len(stores) = 2
     /\ Abs(stores[1].likelihood - stores[2].likelihood) < 10
     /\ stores[1].distance # stores[2].distance
     /\ stores[1].distance # 0
     /\ stores[2].distance # 0)
    => /\ locatorResult[1].distance < locatorResult[2].distance
       /\ finalStores[1].distance < finalStores[2].distance

\* The hard-exclusion list of the heuristic scorer: substrings of the lower-
\* cased name, and substrings of the lower-cased, space-joined type tags.
NameExclusions ==
    {"restaurant", "food", "clothing", "beauty", "gas", "bank", "pharmacy", "auto",
     "coffee", "cafe", "hotel", "motel", "school", "hospital", "pizza", "burger",
     "salon", "spa", "gym", "fitness", "church", "temple"}

TypeExclusions ==
    {"restaurant", "food", "clothing_store", "beauty_salon", "gas_station", "bank",
     "pharmacy", "car_"}

MatchesExclusion(store) ==
    \/ NameIncludes[store.name] \cap NameExclusions # {}
    \/ TypesInclude[store.types] \cap TypeExclusions # {}

\* The same candidate, before and after scoring.
SameCandidate(a, b) ==
    /\ a.name = b.name
    /\ a.types = b.types
    /\ a.coordinates = b.coordinates

\* C5: in heuristic mode a candidate whose name or type tags match the
\* hard-exclusion list gets likelihood exactly 0, whatever positive keyword,
\* store-type and proximity points it also matched, and is absent from the
\* heuristic verifier's output.
C5_ExcludedScoresZero ==
    \A i \in 1..Len(stores) :
        MatchesExclusion(stores[i]) =>
            /\ heuristicLikelihood(stores[i]) = 0
            /\ pc = "scored" =>
                   \A j \in 1..Len(verifiedStores) :
                       ~SameCandidate(verifiedStores[j], stores[i])

\* A "Home Depot Cafe" tagged as a hardware store, half a mile away, whose
\* positive points alone reach 100, was scored and is not in the output.
C5_Witness ==
    /\ pc = "scored"
    /\ \E i \in 1..Len(stores) :
           /\ stores[i].name = "Home Depot Cafe"
           /\ stores[i].types = <<"hardware_store", "store">>
           /\ stores[i].distance = 5
           /\ PositiveScore(stores[i]) + DistanceBonus(stores[i]) >= 100
           /\ MatchesExclusion(stores[i])
    /\ ~locatorCaught
    /\ verifiedStores = <<>>

\* C6: for every origin and every maxDistance > 0, generateFallbackStores
\* returns at least 1 and at most 5 stores, each with distance <= maxDistance.
C6_FallbackWithinBudget ==
    pc = "fellBack" =>
        /\ Len(locatorResult) >= 1
        /\ Len(locatorResult) <= 5
        /\ \A i \in 1..Len(locatorResult) :
               /\ locatorResult[i].distance <= maxDistance
               /\ DistanceFromOrigin(locatorResult[i]) <= maxDistance

\* The fallback list for a budget of 0.3 mi: three stores, the farthest one
\* 0.1 mi away, where the unscaled profiles lie 0.6 to 0.9 mi away.
C6_Witness ==
    /\ pc = "fellBack"
    /\ maxDistance = 3
    /\ Len(locatorResult) = 3
    /\ locatorResult[3].distance = 1
    /\ locatorResult[1].source = "fallback"

\* C7: a valid request (finite origin, a part with a name, maxDistance > 0)
\* always completes with a list and never with an exception, whatever the
\* oracle and the provider do; a request none of whose candidates survives
\* completes with the empty list.
C7_NeverThrows == pc = "done" => outcome = "returned"

\* C7, for requests in which every candidate's name is a string: the request
\* completes with a list.
C7_NeverThrowsOnTextNames ==
    (/\ pc = "done"
     /\ \A i \in 1..Len(stores) : IsString(stores[i].name))
    => outcome = "returned"

\* C8: for every answer of the classification oracle, determineStoreTypes
\* returns a list that is non-empty, has at most 4 entries, and holds only
\* tags of the closed set {hardware_store, home_goods_store,
\* electronics_store, store}.
C8_StoreTypesContract ==
    pc = "search" =>
        /\ Len(storeTypes) >= 1
        /\ Len(storeTypes) <= 4
        /\ \A i \in 1..Len(storeTypes) :
               storeTypes[i] \in
                   {"hardware_store", "home_goods_store", "electronics_store", "store"}

\* C8 without the length bound: the list is non-empty and holds only tags of
\* the closed set.
C8_NonEmptyClosedSet ==
    pc = "search" =>
        /\ Len(storeTypes) >= 1
        /\ \A i \in 1..Len(storeTypes) :
               storeTypes[i] \in
                   {"hardware_store", "home_goods_store", "electronics_store", "store"}

\* C9: every store verifyPartAvailability returns, in oracle mode and in
\* heuristic mode alike, carries a likelihood between 60 and 100.
C9_LikelihoodRange ==
    pc \in {"finder", "done"} =>
        \A i \in 1..Len(verifiedStores) :
            /\ verifiedStores[i].likelihood >= 60
            /\ verifiedStores[i].likelihood <= 100

\* C9, for the stores the heuristic scored (no oracle key configured).
C9_HeuristicLikelihoodRange ==
    (pc \in {"finder", "done"} /\ ~openaiApiKey) =>
        \A i \in 1..Len(verifiedStores) :
            /\ verifiedStores[i].likelihood >= 60
            /\ verifiedStores[i].likelihood <= 100

\* How many entries of a list are the candidate c.
Copies(list, c) == Cardinality({k \in 1..Len(list) : SameCandidate(list[k], c)})

\* C10: when the locator returned its ranked list (not the fallback list of
\* its catch block), the list findNearbyStores returns is no longer than the
\* list of candidates that entered the availability verifier, and holds no
\* candidate more often than that list does.
C10_NoMultiplication ==
    (pc = "done" /\ outcome = "returned" /\ ~locatorCaught) =>
        /\ Len(finalStores) <= Len(stores)
        /\ \A i \in 1..Len(finalStores) :
               Copies(finalStores, finalStores[i]) <= Copies(stores, finalStores[i])

\* C10, for requests whose candidates were scored by the heuristic (no
\* oracle key configured).
C10_NoMultiplicationByHeuristic ==
    (pc = "done" /\ outcome = "returned" /\ ~locatorCaught /\ ~openaiApiKey) =>
        /\ Len(finalStores) <= Len(stores)
        /\ \A i \in 1..Len(finalStores) :
               Copies(finalStores, finalStores[i]) <= Copies(stores, finalStores[i])

---------------------------------------------------------------------------
(* Provenance.                                                             *)

\* The ids generateFallbackStores gives its three profiles (lines 1037,
\* 1053, 1069); a store built from a place of the provider has the id
\* 'unknown' (line 787).
FallbackIds == {"fallback_hd", "fallback_lowes", "fallback_local"}

\* The marker a store must carry, by where it was created.
MarkedByOrigin(store) ==
    /\ Has(store, "source")
    /\ store.source = (IF store.id \in FallbackIds THEN "fallback" ELSE "google_places")

\* C11: every store synthesized by generateFallbackStores carries source =
\* 'fallback' and every store built from a place of the provider carries
\* source = 'google_places', in the candidate list, after verification (oracle
\* or heuristic), after the locator's distance filter and ranking, and in the
\* list findNearbyStores returns.
C11_ProvenanceKept ==
    \A list \in {stores, verifiedStores, locatorResult, finalStores} :
        \A i \in 1..Len(list) : MarkedByOrigin(list[i])

\* A returned list with a synthetic store that the oracle verified and the
\* ranking scored, still marked 'fallback'.
C11_Witness ==
    /\ outcome = "returned"
    /\ \E i \in 1..Len(finalStores) :
           /\ finalStores[i].id \in FallbackIds
           /\ finalStores[i].source = "fallback"
           /\ Has(finalStores[i], "aiReason")
           /\ finalStores[i].aiReason = "oracle"
           /\ Has(finalStores[i], "relevanceScore")

---------------------------------------------------------------------------
(* Progress.                                                               *)

\* C12: a request eventually completes even when an upstream call
\* (classification, places search, availability verification) never
\* answers: no request stays pending forever.
C12_EventuallyCompletes == <>(pc = "done")

\* C12, when every upstream call is answered: the request that has started
\* leads to its completion.
C12_CompletesWhenAnswered == (pc = "classify") ~> (pc = "done")

---------------------------------------------------------------------------
(* Validation of the request.                                              *)

\* C13: a request whose distance budget is not positive (maxDistance <= 0)
\* is rejected: findNearbyStores surfaces an error to the caller and returns
\* no store list for it.
C13_NonPositiveBudgetRejected ==
    (pc = "done" /\ maxDistance <= 0) => (outcome = "threw" /\ finalStores = <<>>)

\* C13, what the code does instead: a request with a budget of 0 and no
\* places key completes with the three synthetic stores, each at distance 0.
C13_ZeroBudgetReturnsStores ==
    (pc = "done" /\ maxDistance = 0 /\ ~googlePlacesApiKey /\ ~openaiApiKey)
    => /\ outcome = "returned"
       /\ Len(finalStores) = 3
       /\ \A i \in 1..3 : finalStores[i].distance = 0 /\ finalStores[i].source = "fallback"

---------------------------------------------------------------------------
(* Determinism.                                                            *)

---------------------------------------------------------------------------
(* The price estimate.                                                     *)

\* An estimate with a point price, a currency and a display range from
\* round(0.85 x price) to round(1.15 x price) around the price.
StructuredEstimate(store) ==
    /\ Has(store, "estimatedPrice")
    /\ Has(store.estimatedPrice, "price")
    /\ Has(store.estimatedPrice, "currency")
    /\ Has(store.estimatedPrice, "range")
    /\ store.estimatedPrice.range = <<RoundDiv(store.estimatedPrice.price * 85, 100),
                                      RoundDiv(store.estimatedPrice.price * 115, 100)>>
    /\ store.estimatedPrice.range[1] <= store.estimatedPrice.price
    /\ store.estimatedPrice.price <= store.estimatedPrice.range[2]

\* C15: every store returned by findNearbyStores, from the places provider
\* or from the fallback generator, carries an estimatedPrice that is a
\* structured estimate: a point price, a currency and a display range with
\* low = round(0.85 x price) <= price <= high = round(1.15 x price).
C15_StructuredPrice ==
    outcome = "returned" => \A i \in 1..Len(finalStores) : StructuredEstimate(finalStores[i])

\* C15, for the stores built from places of the provider.
C15_StructuredPriceOfProviderStores ==
    outcome = "returned"
    => \A i \in 1..Len(finalStores) :
           finalStores[i].source = "google_places" => StructuredEstimate(finalStores[i])

---------------------------------------------------------------------------
(* Failures of the classification oracle.                                  *)

\* The oracle is unconfigured, the request throws, the status is non-2xx,
\* the body has no JSON array, the array does not parse, or no element of
\* the array is in the closed tag set.
ClassificationFails(reply) ==
    \/ ~openaiApiKey
    \/ reply.kind \in {"network_error", "http_error", "bad_body", "no_array", "unparseable"}
    \/ /\ reply.kind = "array"
       /\ \A i \in 1..Len(reply.items) :
              reply.items[i] \notin
                  {"hardware_store", "home_goods_store", "electronics_store", "store"}

\* C16: determineStoreTypes never fails its caller: whenever the
\* classification fails (see ClassificationFails), the call settles with
\* exactly the fixed list of all four tags.  For every answer: the call has
\* settled with the four tags, or it is not a failed classification settling
\* on this answer.
C16_FailuresFallBack ==
    [][\A reply \in TypeTagReplies :
           \/ storeTypes' = <<"hardware_store", "home_goods_store", "electronics_store", "store">>
           \/ ~(ClassificationFails(reply) /\ ClassifyDone(reply))
      ]_vars

\* The oracle is configured, and the call has settled with the four tags;
\* no answer of the oracle lists electronics_store, so this is the fallback.
C16_Witness ==
    /\ pc = "search"
    /\ openaiApiKey
    /\ storeTypes = <<"hardware_store", "home_goods_store", "electronics_store", "store">>

---------------------------------------------------------------------------
(* Failures of the availability oracle.                                    *)

\* The oracle is unconfigured, its call fails, its response cannot be
\* parsed, or it lists no entry with likelihood >= 60.
VerificationFails(reply) ==
    \/ ~openaiApiKey
    \/ reply.kind \in {"network_error", "http_error", "bad_body", "no_array", "unparseable"}
    \/ /\ reply.kind = "array"
       /\ \A i \in 1..Len(reply.items) : reply.items[i].likelihood < 60

\* C17: whenever the verification by the oracle fails (see
\* VerificationFails), verifyPartAvailability settles as
\* heuristicStoreFiltering does on the full candidate list: with the same
\* list, or with the same exception.
C17_FailuresUseHeuristic ==
    (pc \in {"finder", "done"} /\ VerificationFails(upstream.evaluations))
    => /\ verifiedStores = heuristicStoreFiltering(stores).value
       /\ locatorCaught = heuristicStoreFiltering(stores).threw

\* The oracle is configured and answered with one entry under 60 for two
\* candidates; the verified list is the two stores as the heuristic scores
\* them.
C17_Witness ==
    /\ pc = "finder"
    /\ openaiApiKey
    /\ upstream.evaluations = [kind |-> "array", items |-> <<[index |-> 1, likelihood |-> 59]>>]
    /\ Len(stores) = 2
    /\ Len(verifiedStores) = 2
    /\ verifiedStores[1].likelihood # 59
    /\ verifiedStores[2].aiReason = "Heuristic evaluation - likely carries appliance parts"

---------------------------------------------------------------------------
(* The distance filters.                                                   *)

\* The names of a list of stores, in order.
Names(list) == [i \in 1..Len(list) |-> list[i].name]

\* The candidates whose distance, recomputed from their coordinates and the
\* origin, is <= maxDistance.
WithinRecomputed(candidates) ==
    SelectSeq(candidates, LAMBDA store : DistanceFromOrigin(store) <= maxDistance)

\* C18: each distance filter keeps exactly the candidates whose distance,
\* recomputed from the candidate's coordinates and the origin, is <=
\* maxDistance (one at exactly maxDistance is kept), for every candidate
\* list, including candidates that arrive with a distance field that differs
\* from the recomputed one.
C18_FilterByRecomputedDistance ==
    /\ pc \in {"filterAgain", "filtered"}
           => Names(locatorResult) = Names(WithinRecomputed(stores))
    /\ pc = "filtered"
           => Names(finalStores) = Names(WithinRecomputed(stores))

\* C18, for candidates that carry the distance of their coordinates.
C18_FilterMeasuredCandidates ==
    (\A i \in 1..Len(stores) :
         Has(stores[i], "distance") /\ stores[i].distance = DistanceFromOrigin(stores[i]))
    => C18_FilterByRecomputedDistance

---------------------------------------------------------------------------
(* Failures of the places provider.                                        *)

\* The provider is unconfigured, the request throws, the status is non-2xx,
\* or the provider's list of places is missing or empty.
SearchFails(reply) ==
    \/ ~googlePlacesApiKey
    \/ reply.kind \in {"network_error", "http_error"}
    \/ /\ reply.kind = "places"
       /\ (~Has(reply, "places") \/ reply.places = <<>>)

\* C19: whenever the search of the provider fails (see SearchFails),
\* searchRealNearbyStores returns the output of
\* generateFallbackStores(origin, maxDistance).
C19_FailuresGenerateFallback ==
    (pc \in {"verify", "finder", "done"} /\ SearchFails(upstream.places))
    => stores = generateFallbackStores(userLocation, maxDistance)

\* The provider is configured and answered with an empty list of places; the
\* candidates are the three synthetic stores.
C19_Witness ==
    /\ pc = "verify"
    /\ googlePlacesApiKey
    /\ upstream.places = [kind |-> "places", places |-> <<>>]
    /\ Len(stores) = 3
    /\ \A i \in 1..3 : stores[i].source = "fallback"

---------------------------------------------------------------------------
(* The order of the steps.                                                 *)

\* C20: within one request the steps run strictly in the order classify
\* store types, search candidates, verify availability, then distance filter
\* and rank: the verification is awaited only once the candidate search has
\* settled, which is awaited only once the classification has settled, and
\* the lists are filtered and ranked only once the verification has settled;
\* each result is written by its own step and by no other.
C20_StepsInOrder ==
    [][/\ <<pc, pc'>> \in {<<"classify", "search">>, <<"search", "verify">>,
                            <<"verify", "finder">>, <<"finder", "done">>}
       /\ (storeTypes' # storeTypes) => (pc = "classify")
       /\ (stores' # stores) => (pc = "search")
       /\ (verifiedStores' # verifiedStores \/ locatorResult' # locatorResult)
              => (pc = "verify")
       /\ (finalStores' # finalStores) => (pc = "finder")
      ]_vars

\* A request that went through every step: classified, searched, verified
\* by the oracle, filtered and ranked, and returned.
C20_Witness ==
    /\ pc = "done"
    /\ outcome = "returned"
    /\ storeTypes = <<"hardware_store">>
    /\ Len(stores) = 2
    /\ Len(verifiedStores) = 2
    /\ Len(finalStores) = 2
    /\ Has(finalStores[1], "relevanceScore")

---------------------------------------------------------------------------
(* The proximity bonus.                                                    *)

\* The bonus by the distance a store carries, tenths of a mile.
BonusByDistance(distance) ==
    IF distance <= 10 THEN 15
    ELSE IF distance <= 20 THEN 10
    ELSE IF distance <= 30 THEN 5
    ELSE 0

\* C21: in heuristic mode the proximity bonus added to a candidate's score
\* is +15 when its distance is <= 1 mile, +10 when <= 2 miles, +5 when <= 3
\* miles and 0 beyond, for every distance a candidate can carry, 0.0 miles
\* included.
C21_ProximityBonus ==
    pc = "scored" =>
        \A i \in 1..Len(verifiedStores) :
            verifiedStores[i].likelihood
                = PositiveScore(verifiedStores[i]) + BonusByDistance(verifiedStores[i].distance)

\* C21, for candidates that are not at the origin.
C21_ProximityBonusAwayFromOrigin ==
    pc = "scored" =>
        \A i \in 1..Len(verifiedStores) :
            verifiedStores[i].distance # 0 =>
                verifiedStores[i].likelihood
                    = PositiveScore(verifiedStores[i])
                      + BonusByDistance(verifiedStores[i].distance)

---------------------------------------------------------------------------
(* The relevance score.                                                    *)

\* relevanceScore (tenths of a point) = likelihood - distance x 5 points per
\* mile, from the likelihood and the distance the store itself carries.
ScoredByOwnValues(store) ==
    /\ Has(store, "relevanceScore")
    /\ store.relevanceScore = store.likelihood * 10 - store.distance * 5

\* C22: every store returned by findNearbyStores has relevanceScore =
\* likelihood - (distance x 5), computed from the likelihood and the distance
\* the store carries in the output, for every likelihood in 60..100 and
\* every distance in 0..maxDistance.
C22_RelevanceScore ==
    outcome = "returned" =>
        \A i \in 1..Len(finalStores) :
            (/\ finalStores[i].likelihood \in 60..100
             /\ finalStores[i].distance \in 0..maxDistance)
            => ScoredByOwnValues(finalStores[i])

\* C22, for the returned stores that are not at the origin.
C22_RelevanceScoreAwayFromOrigin ==
    outcome = "returned" =>
        \A i \in 1..Len(finalStores) :
            (/\ finalStores[i].likelihood \in 60..100
             /\ finalStores[i].distance \in 1..maxDistance)
            => ScoredByOwnValues(finalStores[i])

---------------------------------------------------------------------------
(* The price tiers.                                                        *)

\* The likelihood tier of a store: 3 from 85, 2 from 70, 1 below.
LikelihoodTier(store) ==
    IF store.likelihood >= 85 THEN 3 ELSE IF store.likelihood >= 70 THEN 2 ELSE 1

\* The kind of a store's name: 1 a big-box chain, 3 a specialty (parts,
\* appliance) store, 2 neither.
NameKind(store) ==
    IF store.name \in {"The Home Depot", "Lowe's Home Improvement"} THEN 1
    ELSE IF store.name \in {"Local Appliance Parts Center", "Vegas Appliance Repair"} THEN 3
    ELSE 2

\* C23: getEstimatedPrice is monotone in its tiers.  For one part category:
\* of two stores of the same name, the one in the higher likelihood tier
\* never gets the higher point price; of two stores of the same likelihood,
\* a big-box chain never gets a higher price than a neutral name, nor a
\* neutral name a higher price than a specialty name.
C23_PriceMonotone ==
    pc = "ranked" =>
        \A i, j \in 1..Len(finalStores) :
            /\ (/\ finalStores[i].name = finalStores[j].name
                /\ LikelihoodTier(finalStores[i]) >= LikelihoodTier(finalStores[j]))
               => finalStores[i].estimatedPrice.price <= finalStores[j].estimatedPrice.price
            /\ (/\ finalStores[i].likelihood = finalStores[j].likelihood
                /\ NameKind(finalStores[i]) <= NameKind(finalStores[j]))
               => finalStores[i].estimatedPrice.price <= finalStores[j].estimatedPrice.price

\* A control board priced at two stores of likelihood 85: 103 at the chain,
\* 113 at the specialty store.
C23_Witness ==
    /\ pc = "ranked"
    /\ part.name = "Replacement part" /\ part.category = "Control Board"
    /\ Len(finalStores) = 2
    /\ \E i, j \in 1..2 :
           /\ finalStores[i].name = "The Home Depot"
           /\ finalStores[j].name = "Local Appliance Parts Center"
           /\ finalStores[i].likelihood = 85 /\ finalStores[j].likelihood = 85
           /\ finalStores[i].estimatedPrice.price = 103
           /\ finalStores[j].estimatedPrice.price = 113

---------------------------------------------------------------------------
(* The candidates the oracle was shown.                                    *)

\* Store `verified` is a copy of one of `candidates` with the oracle's
\* likelihood on it.
AcceptedFrom(verified, candidates) ==
    \E k \in 1..Len(candidates) :
        /\ verified.coordinates = candidates[k].coordinates
        /\ verified.name = candidates[k].name

\* C24: in oracle mode only a candidate that was presented to the oracle,
\* one of the first 15 of the candidate list, is accepted with an oracle
\* likelihood: an evaluation whose index points past the 15 presented
\* candidates is ignored.
C24_OnlyPresentedAccepted ==
    pc \in {"finder", "done"} =>
        \A i \in 1..Len(verifiedStores) :
            verifiedStores[i].aiReason = "oracle"
                => AcceptedFrom(verifiedStores[i], PresentedStores(stores))

\* C24, for the candidate list as a whole: an evaluation whose index points
\* past the list is ignored.
C24_OnlyListedAccepted ==
    pc \in {"finder", "done"} =>
        \A i \in 1..Len(verifiedStores) :
            verifiedStores[i].aiReason = "oracle" => AcceptedFrom(verifiedStores[i], stores)

---------------------------------------------------------------------------
(* The availability label.                                                 *)

\* The label of a likelihood: >= 85 Likely In Stock, >= 70 May Have In
\* Stock, otherwise Call to Confirm.
LabelOfLikelihood(likelihood) ==
    IF likelihood >= 85 THEN "Likely In Stock"
    ELSE IF likelihood >= 70 THEN "May Have In Stock"
    ELSE "Call to Confirm"

\* C25: for every store returned by findNearbyStores the availability label
\* agrees with the likelihood the store carries in the same output, on every
\* path, including the path where fallback-generated stores are afterwards
\* re-scored by the heuristic verifier.
C25_LabelAgrees ==
    outcome = "returned" =>
        \A i \in 1..Len(finalStores) :
            /\ Has(finalStores[i], "availability")
            /\ finalStores[i].availability.label
                   = LabelOfLikelihood(finalStores[i].likelihood)

\* C25, for the stores built from places of the provider.
C25_LabelAgreesOfProviderStores ==
    outcome = "returned" =>
        \A i \in 1..Len(finalStores) :
            finalStores[i].source = "google_places" =>
                /\ Has(finalStores[i], "availability")
                /\ finalStores[i].availability.label
                       = LabelOfLikelihood(finalStores[i].likelihood)

---------------------------------------------------------------------------
(* The candidate list handed to the verifier.                              *)

\* C26: for maxDistance > 0 the candidate search step never hands an empty
\* candidate list to the verifier: whenever no real place survives,
\* searchRealNearbyStores returns the fallback generator's stores instead.
C26_CandidatesNeverEmpty ==
    (pc = "verify" /\ maxDistance > 0) => stores # <<>>

\* C26, for the search without a provider key: the fallback generator's
\* list is not empty when maxDistance > 0.
C26_FallbackNeverEmpty ==
    (pc = "verify" /\ maxDistance > 0 /\ ~googlePlacesApiKey) => stores # <<>>

---------------------------------------------------------------------------
(* Places without a location.                                              *)

\* The store was built from a place of the provider's answer that has a
\* location, and stands at that location.
BuiltFromLocatedPlace(store, reply) ==
    /\ Has(reply, "places")
    /\ \E k \in 1..Len(reply.places) :
           /\ Has(reply.places[k], "location")
           /\ reply.places[k].displayName = store.name
           /\ reply.places[k].location.latitude = store.coordinates.lat
           /\ reply.places[k].location.longitude = store.coordinates.lng

\* The store was built from a place of the provider's answer that has no
\* location.
BuiltFromUnlocatedPlace(store, reply) ==
    /\ Has(reply, "places")
    /\ \E k \in 1..Len(reply.places) :
           /\ ~Has(reply.places[k], "location")
           /\ reply.places[k].displayName = store.name

\* C27: a place the provider returns without a location never appears in
\* the result of findNearbyStores: a store lacking coordinates is excluded
\* rather than being given a distance.
C27_UnlocatedPlacesExcluded ==
    outcome = "returned" =>
        \A i \in 1..Len(finalStores) :
            finalStores[i].source = "google_places"
                => BuiltFromLocatedPlace(finalStores[i], upstream.places)

\* C27, as the code has it: a returned store of the provider stands at its
\* place's location, or its place had none and it stands at the user's own
\* position with distance 0.
C27_UnlocatedPlacesAtOrigin ==
    outcome = "returned" =>
        \A i \in 1..Len(finalStores) :
            finalStores[i].source = "google_places" =>
                \/ BuiltFromLocatedPlace(finalStores[i], upstream.places)
                \/ /\ BuiltFromUnlocatedPlace(finalStores[i], upstream.places)
                   /\ finalStores[i].coordinates
                          = [lat |-> userLocation.latitude, lng |-> userLocation.longitude]
                   /\ finalStores[i].distance = 0

---------------------------------------------------------------------------
(* The cut to five.                                                        *)

\* b has likelihood >= a's and distance <= a's, one of them strictly.
Dominates(b, a) ==
    /\ b.likelihood >= a.likelihood
    /\ b.distance <= a.distance
    /\ (b.likelihood > a.likelihood \/ b.distance < a.distance)

\* The names in a list of stores.
NameSet(list) == {list[i].name : i \in 1..Len(list)}

\* The candidates that passed verification and the distance filter.
Survivors == applyStrictDistanceFilter(verifiedStores, userLocation, maxDistance)

\* C28: the 5 stores returned are the best of all surviving candidates: if
\* store B passed verification and the distance filter but is not in the
\* result of findNearbyStores while store A is, then B does not dominate A.
C28_BestFive ==
    outcome = "returned" =>
        \A b \in 1..Len(Survivors) :
            Survivors[b].name \notin NameSet(finalStores)
                => \A a \in 1..Len(finalStores) : ~Dominates(Survivors[b], finalStores[a])

\* C28, away from the origin: the same statement for the requests none of
\* whose surviving candidates is at distance 0; it fails as well, on
\* candidates the locator's comparator ties.
C28_BestFiveAwayFromOrigin ==
    (outcome = "returned" /\ \A b \in 1..Len(Survivors) : Survivors[b].distance > 0) =>
        \A b \in 1..Len(Survivors) :
            Survivors[b].name \notin NameSet(finalStores)
                => \A a \in 1..Len(finalStores) : ~Dominates(Survivors[b], finalStores[a])

\* C28, as the code has it: the stores returned are the first five of the
\* surviving candidates in the locator's order.
C28_FirstFiveOfLocatorOrder ==
    outcome = "returned" =>
        NameSet(finalStores)
            = NameSet(Slice(locatorSortByDistanceAndRelevance(Survivors), 5))

---------------------------------------------------------------------------
(* Requests by ZIP code.                                                   *)

\* The geocoder of the request was unavailable: a non-2xx status, or a
\* network error.
GeocoderUnavailable == upstream.geocoder.kind \in {"http_error", "network_error"}

\* C29: zipCodeToCoordinates resolves every ZIP code of its built-in table
\* to that table's coordinates whenever the remote geocoder is unavailable,
\* both when it answers with a non-2xx status and when the request fails
\* with a network error; findStoresByZipCode rejects with 'Invalid ZIP code
\* or location not found' only for ZIP codes outside the table.
C29_TableZipsResolve ==
    (pc # "zip" /\ GeocoderUnavailable) =>
        IF zipCode \in DOMAIN zipCodeMap
        THEN /\ outcome # InvalidZip
             /\ userLocation # NoLocation
             /\ userLocation.latitude = zipCodeMap[zipCode].latitude
             /\ userLocation.longitude = zipCodeMap[zipCode].longitude
        ELSE outcome = InvalidZip

\* C29, for the geocoder that answers with a non-2xx status.
C29_TableZipsResolveOnStatus ==
    (pc # "zip" /\ upstream.geocoder.kind = "http_error") =>
        IF zipCode \in DOMAIN zipCodeMap
        THEN /\ outcome # InvalidZip
             /\ userLocation # NoLocation
             /\ userLocation.latitude = zipCodeMap[zipCode].latitude
             /\ userLocation.longitude = zipCodeMap[zipCode].longitude
        ELSE outcome = InvalidZip

\* C29, for the request that fails with a network error: every ZIP code is
\* rejected.
C29_NetworkErrorRejects ==
    (pc # "zip" /\ upstream.geocoder.kind = "network_error") => outcome = InvalidZip

---------------------------------------------------------------------------
(* The vendor pricing cache.                                               *)

\* C30: the vendor pricing cache never serves stale data: under every
\* interleaving of concurrent getVendorPricing calls (same or different
\* parts) and clearExpiredCache sweeps, a call returns a cached entry only
\* when that entry's age is strictly less than cacheTimeout, and otherwise
\* fetches and overwrites the entry with a fresh timestamp.
C30_NeverStale ==
    \A i \in 1..Len(pricingCalls) :
        pricingCalls[i].state = "returned" =>
            IF pricingCalls[i].from = "cache"
            THEN /\ pricingCalls[i].found.present
                 /\ pricingCalls[i].found.age < cacheTimeout
                 /\ pricingCalls[i].result = pricingCalls[i].found.entry.data
            ELSE /\ ~pricingCalls[i].found.present
                    \/ pricingCalls[i].found.age >= cacheTimeout
                 /\ pricingCalls[i].wrote.timestamp = pricingCalls[i].at
                 /\ pricingCalls[i].wrote.data = pricingCalls[i].result

\* A call was served an entry one instant before its expiry; a sweep then
\* removed that entry, older than cacheTimeout, so that a later call for the
\* same part found no entry, fetched and wrote a new one.
C30_Witness ==
    \E i, j \in 1..Len(pricingCalls) :
        /\ i < j
        /\ pricingCalls[i].state = "returned"
        /\ pricingCalls[i].from = "cache"
        /\ pricingCalls[i].found.age = cacheTimeout - 1
        /\ pricingCalls[j].part = pricingCalls[i].part
        /\ pricingCalls[j].state = "returned"
        /\ pricingCalls[j].from = "fetch"
        /\ ~pricingCalls[j].found.present
        /\ pricingCalls[j].at - pricingCalls[i].found.entry.timestamp > cacheTimeout

===========================================================================
